---- MODULE Spec2Model ----
(***************************************************************************)
(* A model of the input and editing core of iamb: the vi keybinding state  *)
(* machine (ViChatFSM), the single-line TextBox it drives, the HistList    *)
(* that backs undo/redo and the RegisterManager.                           *)
(*                                                                         *)
(* Text is a sequence of one-character strings.  A JavaScript null or      *)
(* undefined text is the one-element sequence <<"null">> / <<"undefined">>;*)
(* a null character is the string "null".  A cursor is its x coordinate    *)
(* (y is always 0 in the source); the null cursor is NoCursor.             *)
(***************************************************************************)
EXTENDS Integers, Sequences, FiniteSets, TLC

VARIABLES
    fsm,        \* the ViChatFSM object: state and ambient fields
    box,        \* the TextBox object: value, cursor, hlbegin, history, prev
    regs,       \* the RegisterManager object: yanked, recent, registers
    crashed,    \* an exception left a key handler (or the constructor) uncaught
    ndebug,     \* NODE_NDEBUG is set: assert-plus assertions are no-ops
    emitted,    \* the events emitted while handling the last key, in order
    trail,      \* the last keys delivered, each with the state it found
    budget,      \* number of keys delivered so far
    probe,      \* inputs and result of a directly applied operation
    pane,       \* a Pane object: jumplist and wrapped view (null: no Pane)
    hist,       \* a HistList used on its own (null: none)
    simple,     \* a SimpleChatFSM object: its state (null: none)
    win,        \* a Window object: panes, index, pane, state (null: none)
    screen      \* a Screen object: state, cmd_in, cmdbar (null: none)

vars ==
    <<fsm, box, regs, crashed, ndebug, emitted, trail, budget, probe, pane,
      hist, simple, win, screen>>

\* ------------------------------------------------------------------------
\* JavaScript values

null == <<"null">>
undefined == <<"undefined">>
NoCursor == 0 - 1

Min(a, b) == IF a < b THEN a ELSE b
Max(a, b) == IF a > b THEN a ELSE b

Range(s) == {s[i] : i \in 1..Len(s)}

LowerLetters ==
    <<"a","b","c","d","e","f","g","h","i","j","k","l","m",
      "n","o","p","q","r","s","t","u","v","w","x","y","z">>
UpperLetters ==
    <<"A","B","C","D","E","F","G","H","I","J","K","L","M",
      "N","O","P","Q","R","S","T","U","V","W","X","Y","Z">>
Digits == {"0","1","2","3","4","5","6","7","8","9"}

IndexIn(seq, c) == CHOOSE i \in 1..Len(seq) : seq[i] = c

\* String.prototype.toLowerCase / toUpperCase on one character.
toLowerChar(c) ==
    IF c \in Range(UpperLetters) THEN LowerLetters[IndexIn(UpperLetters, c)] ELSE c
toUpperChar(c) ==
    IF c \in Range(LowerLetters) THEN UpperLetters[IndexIn(LowerLetters, c)] ELSE c

\* parseInt(ch, 10) for a digit character.
DigitValue(ch) ==
    CASE ch = "0" -> 0 [] ch = "1" -> 1 [] ch = "2" -> 2 [] ch = "3" -> 3
      [] ch = "4" -> 4 [] ch = "5" -> 5 [] ch = "6" -> 6 [] ch = "7" -> 7
      [] ch = "8" -> 8 [] ch = "9" -> 9

\* value[i] with a 0-based index; out of range reads undefined.
CharAt(s, i) == IF i >= 0 /\ i < Len(s) THEN s[i + 1] ELSE "undefined"

\* String.prototype.slice(a, b): negative indices count from the end, both
\* ends are clamped to the string.
SliceIndex(s, i) == IF i < 0 THEN Max(Len(s) + i, 0) ELSE Min(i, Len(s))
Slice(s, a, b) == SubSeq(s, SliceIndex(s, a) + 1, SliceIndex(s, b))
SliceFrom(s, a) == Slice(s, a, Len(s))

\* array[i] = v with a 0-based index: overwrite, append, or leave holes.
SetAt(list, i, v) ==
    [k \in 1..Max(Len(list), i + 1) |->
        IF k = i + 1 THEN v
        ELSE IF k <= Len(list) THEN list[k] ELSE undefined]

RECURSIVE repeat(_, _)
repeat(text, count) == IF count <= 0 THEN <<>> ELSE text \o repeat(text, count - 1)

\* ------------------------------------------------------------------------
\* textbox.js helpers

HISTSIZE == 500

isInclusiveRight(type) == type \in {"to-char", "till-char", "highlight", "word-end"}
isInclusiveLeft(type) == type = "highlight"

\* the characters '!'..'/', '['..'^', '{'..'~' and the backtick (written "backtick")
isKeyword(c) ==
    c \in {"!", "\"", "#", "$", "%", "&", "'", "(", ")", "*", "+", ",", "-", ".",
           "/", "[", "\\", "]", "^", "{", "|", "}", "~", "backtick"}
isWordChar(c) ==
    c \in Range(LowerLetters) \cup Range(UpperLetters) \cup Digits \cup {"_"}

isWordBegin(val, idx) ==
    IF idx = 0 THEN TRUE
    ELSE LET a == CharAt(val, idx - 1)
             b == CharAt(val, idx)
             awc == isWordChar(a)
             akw == isKeyword(a)
             bwc == isWordChar(b)
             bkw == isKeyword(b)
         IN (awc /\ bkw) \/ (akw /\ bwc) \/ (~awc /\ bwc) \/ (~akw /\ bkw)

isWordEnd(val, idx) ==
    IF idx = 0 \/ idx >= Len(val) - 1 THEN TRUE
    ELSE LET a == CharAt(val, idx)
             b == CharAt(val, idx + 1)
             awc == isWordChar(a)
             akw == isKeyword(a)
             bwc == isWordChar(b)
             bkw == isKeyword(b)
         IN (awc /\ bkw) \/ (akw /\ bwc) \/ (awc /\ ~bwc) \/ (akw /\ ~bkw)

RECURSIVE toggleCase(_)
toggleCase(src) ==
    IF src = <<>> THEN <<>>
    ELSE LET c == Head(src)
             lc == toLowerChar(c)
         IN <<IF c = lc THEN toUpperChar(c) ELSE lc>> \o toggleCase(Tail(src))

toUpperCase(str) == [i \in 1..Len(str) |-> toUpperChar(str[i])]
toLowerCase(str) == [i \in 1..Len(str) |-> toLowerChar(str[i])]

\* ------------------------------------------------------------------------
\* HistList (a record [hl_list, hl_ptr, hl_maxSize]; hl_ptr is 0-based)

HL_DEF_MAX_SIZE == 100

HistList(maxSize) == [hl_list |-> <<>>, hl_ptr |-> 0 - 1, hl_maxSize |-> maxSize]

\* assert.ok(item): a falsy item (here the empty string) fails the assertion
\* unless assertions are disabled.
assertFails(nd, item) == ~nd /\ item = <<>>

\* The result of a HistList call: the list afterwards, the value returned and
\* whether an assertion threw (the list is then as it was at the throw).
HistList_append_keepsTail(h, item) ==
    IF h.hl_ptr = h.hl_maxSize - 1
    THEN [h EXCEPT !.hl_list = SetAt(Tail(@), h.hl_ptr, item)]
    ELSE [h EXCEPT !.hl_ptr = @ + 1, !.hl_list = SetAt(@, h.hl_ptr + 1, item)]

HistList_append_dropsNewest(h, item) ==
    IF h.hl_ptr = h.hl_maxSize - 1
    THEN [h EXCEPT !.hl_list = SetAt(@, h.hl_ptr, item)]
    ELSE [h EXCEPT !.hl_ptr = @ + 1,
                   !.hl_list = SetAt(SubSeq(@, 1, h.hl_ptr + 1),
                                     h.hl_ptr + 1, item)]

HistList_append(h, item) ==
    LET ptr == IF h.hl_ptr = h.hl_maxSize - 1 THEN h.hl_ptr ELSE h.hl_ptr + 1
        kept == IF h.hl_ptr = h.hl_maxSize - 1
                THEN Tail(h.hl_list)
                ELSE SubSeq(h.hl_list, 1, ptr)
    IN [h EXCEPT !.hl_ptr = ptr, !.hl_list = SetAt(kept, ptr, item)]

HistList_next_stays(h, count) == h

HistList_next(h, count) ==
    IF h.hl_ptr + count > Len(h.hl_list) - 1
    THEN [h EXCEPT !.hl_ptr = Len(h.hl_list) - 1]
    ELSE [h EXCEPT !.hl_ptr = h.hl_ptr + count]

HistList_prev_toStart(h, count) == [h EXCEPT !.hl_ptr = 0]

HistList_prev(h, count) ==
    IF h.hl_ptr - count < 0
    THEN [h EXCEPT !.hl_ptr = 0]
    ELSE [h EXCEPT !.hl_ptr = h.hl_ptr - count]

\* The item a next()/prev() call returns: hl_list[hl_ptr].
HistList_item(h) == h.hl_list[h.hl_ptr + 1]

\* current(): the item under the pointer, without moving it.
HistList_current(h) == HistList_item(h)

\* ------------------------------------------------------------------------
\* RegisterManager (a record [yanked, recent, registers]; recent may have holes,
\* registers is the object keyed by register name)

RegisterManager == [yanked |-> null, recent |-> <<>>, registers |-> <<>>]

\* registers[k], and registers[k] = v
Prop(obj, k) == IF k \in DOMAIN obj THEN obj[k] ELSE undefined
PropSet(obj, k, v) == [x \in (DOMAIN obj) \cup {k} |-> IF x = k THEN v ELSE obj[x]]

DeleteRegisterNames == {"1","2","3","4","5","6","7","8","9"}
\* the characters c with 'A' <= c <= 'z' that are not lowercase letters
AppendRegisterNames ==
    Range(UpperLetters) \cup {"[", "\\", "]", "^", "_", "backtick"}

updateYankRegister(r, value) == [r EXCEPT !.yanked = value]

updateDeleteRegisters(r, value) ==
    LET unshifted == <<value>> \o r.recent
    IN [r EXCEPT !.recent = SubSeq(unshifted, 1, Min(Len(unshifted), 9)),
                 !.registers = PropSet(@, "-", value)]

updateCurrentBufferName(r, value) ==
    [r EXCEPT !.registers = PropSet(PropSet(@, "%", Prop(@, "#")), "#", value)]

updateInsertedText(r, value) == [r EXCEPT !.registers = PropSet(@, ".", value)]
updateCommand(r, value) == [r EXCEPT !.registers = PropSet(@, ":", value)]
updateSearch(r, value) == [r EXCEPT !.registers = PropSet(@, ":", value)]

updateNamedRegister(r, reg, value) == [r EXCEPT !.registers = PropSet(@, reg, value)]

appendNamedRegister(r, reg, value) ==
    LET regl == toLowerChar(reg)
    IN IF Prop(r.registers, regl) # undefined
       THEN [r EXCEPT !.registers = PropSet(@, regl, Prop(@, regl) \o value)]
       ELSE [r EXCEPT !.registers = PropSet(@, regl, value)]

updateRegister_discardsNothing(r, action, reg, value) ==
    [r EXCEPT !.registers = PropSet(@, "\"", value)]

updateRegister_unnamedUntouched(r, action, reg, value) ==
    IF reg \in Range(LowerLetters) THEN updateNamedRegister(r, reg, value) ELSE r

updateRegister(r, action, reg, value) ==
    IF reg = "_" THEN r
    ELSE LET written ==
               IF reg = "0" THEN [r EXCEPT !.yanked = value]
               ELSE IF reg \in DeleteRegisterNames
                    THEN [r EXCEPT !.recent = SetAt(@, DigitValue(reg), value)]
               ELSE IF reg \in Range(LowerLetters)
                    THEN updateNamedRegister(r, reg, value)
               ELSE IF reg \in AppendRegisterNames
                    THEN appendNamedRegister(r, reg, value)
               ELSE IF action = "yank" THEN updateYankRegister(r, value)
               ELSE IF action = "delete" THEN updateDeleteRegisters(r, value)
               ELSE r
         IN IF reg \in {"0", "\""} \cup DeleteRegisterNames
                       \cup Range(LowerLetters) \cup AppendRegisterNames
            THEN [written EXCEPT !.registers = PropSet(@, "\"", value)]
            ELSE r

getRegister_unsetIsEmpty(r, reg) ==
    IF reg = "0" THEN r.yanked
    ELSE IF reg \in DeleteRegisterNames
         THEN LET i == DigitValue(reg)
                  v == IF i <= Len(r.recent) THEN r.recent[i] ELSE undefined
              IN IF v = undefined \/ v = <<>> THEN null ELSE v
    ELSE IF Prop(r.registers, reg) # undefined THEN Prop(r.registers, reg)
    ELSE <<>>

\* recent[reg - 1] || null: a hole, a missing slot and the empty string all
\* read as null.
getRegister(r, reg) ==
    IF reg = "0" THEN r.yanked
    ELSE IF reg \in DeleteRegisterNames
         THEN LET i == DigitValue(reg)
                  v == IF i <= Len(r.recent) THEN r.recent[i] ELSE undefined
              IN IF v = undefined \/ v = <<>> THEN null ELSE v
    ELSE IF Prop(r.registers, reg) # undefined THEN Prop(r.registers, reg)
    ELSE null

\* ------------------------------------------------------------------------
\* TextBox: motions.  An action (motion) is a record
\* [movement, direction, character, count, register].

RECURSIVE findCharLoop_looksBehind(_, _, _, _, _, _)
findCharLoop_looksBehind(value, x, offset, move, count, ch) ==
    IF count > 0 /\ x >= 0 /\ x <= Len(value)
    THEN findCharLoop_looksBehind(value, x + move, offset, move,
             IF CharAt(value, x + offset) = ch THEN count - 1 ELSE count, ch)
    ELSE [x |-> x, count |-> count]

RECURSIVE findCharLoop(_, _, _, _, _, _)
findCharLoop(value, x, offset, move, count, ch) ==
    IF count > 0 /\ x >= 0 /\ x <= Len(value)
    THEN findCharLoop(value, x + move, offset, move,
             IF CharAt(value, x + move + offset) = ch THEN count - 1 ELSE count, ch)
    ELSE [x |-> x, count |-> count]

findChar_firstMatch(value, x, offset, move, count, ch) ==
    IF ch \in {"null", "undefined"} THEN 0 - 1
    ELSE LET r == findCharLoop(value, x, offset, move, 1, ch)
         IN IF r.count > 0 THEN 0 - 1 ELSE r.x

\* Seek to a given character on the line: the new x, or -1.
findChar(value, x, offset, move, count, ch) ==
    IF ch \in {"null", "undefined"} THEN 0 - 1
    ELSE LET r == findCharLoop(value, x, offset, move, count, ch)
         IN IF r.count > 0 THEN 0 - 1 ELSE r.x

RECURSIVE findWord(_, _, _, _, _)
findWord(matches, value, x, move, count) ==
    IF count > 0 /\ x >= 0 /\ x < Len(value)
    THEN LET hit == IF matches = "isWordBegin"
                    THEN isWordBegin(value, x + move)
                    ELSE isWordEnd(value, x + move)
         IN findWord(matches, value, x + move, move,
                     IF hit THEN count - 1 ELSE count)
    ELSE x

RECURSIVE skipSpaces(_, _)
skipSpaces(value, x) ==
    IF CharAt(value, x) = " " THEN skipSpaces(value, x + 1) ELSE x

\* The movement/direction pairs for which _movement throws a VError.
unknownMovement(action) ==
    LET d == action.direction
    IN CASE action.movement = "highlight" -> FALSE
         [] action.movement = "line" -> d \notin {"left", "right", "first-word"}
         [] action.movement \in {"word-begin", "word-end", "char"} ->
                d \notin {"left", "right", "down", "up"}
         [] action.movement \in {"to-char", "till-char"} ->
                d \notin {"left", "right"}
         [] OTHER -> TRUE

\* The x a movement seeks to, before the range check.
seek(b, action) ==
    LET x == b.cursor
        d == action.direction
        n == action.count
        c == action.character
    IN CASE action.movement = "highlight" ->
                IF b.hlbegin # NoCursor THEN b.hlbegin ELSE x
         [] action.movement = "line" ->
                (CASE d = "left" -> 0
                   [] d = "right" -> Len(b.value)
                   [] d = "first-word" -> skipSpaces(b.value, 0))
         [] action.movement = "word-begin" ->
                (CASE d = "left" -> findWord("isWordBegin", b.value, x, 0 - 1, n)
                   [] d = "right" -> findWord("isWordBegin", b.value, x, 1, n)
                   [] d \in {"down", "up"} -> x)
         [] action.movement = "word-end" ->
                (CASE d = "left" -> findWord("isWordEnd", b.value, x, 0 - 1, n)
                   [] d = "right" -> findWord("isWordEnd", b.value, x, 1, n)
                   [] d \in {"down", "up"} -> x)
         [] action.movement = "to-char" ->
                (CASE d = "left" -> findChar(b.value, x, 0, 0 - 1, n, c)
                   [] d = "right" -> findChar(b.value, x, 0, 1, n, c))
         [] action.movement = "till-char" ->
                (CASE d = "left" -> findChar(b.value, x, 0 - 1, 0 - 1, n, c)
                   [] d = "right" -> findChar(b.value, x, 1, 1, n, c))
         [] action.movement = "char" ->
                (CASE d = "left" -> Max(x - n, 0)
                   [] d = "right" -> Min(x + n, Len(b.value))
                   [] d \in {"down", "up"} -> x)

\* _movement: where the cursor would stop (nc, NoCursor for null), the
\* highlight anchor afterwards (a highlight movement consumes it) and whether
\* a VError was thrown.
movement(b, action) ==
    IF unknownMovement(action)
    THEN [nc |-> NoCursor, hlbegin |-> b.hlbegin, threw |-> TRUE]
    ELSE LET stop(to) ==
                 [nc |-> IF to < 0 \/ to > Len(b.value) THEN NoCursor ELSE to,
                  hlbegin |-> IF action.movement = "highlight" THEN NoCursor
                              ELSE b.hlbegin,
                  threw |-> FALSE]
         IN stop(seek(b, action))

\* _movement2range: the affected [start, end) range and the cursor to leave
\* (nc); none when the movement failed.
movement2range(b, action) ==
    LET toRange(m) ==
            IF m.nc = NoCursor
            THEN [none |-> TRUE, start |-> 0, end |-> 0, nc |-> 0,
                  hlbegin |-> m.hlbegin, threw |-> m.threw]
            ELSE IF m.nc < b.cursor
                 THEN [none |-> FALSE, start |-> m.nc,
                       end |-> IF isInclusiveLeft(action.movement)
                               THEN b.cursor + 1 ELSE b.cursor,
                       nc |-> m.nc, hlbegin |-> m.hlbegin, threw |-> FALSE]
                 ELSE [none |-> FALSE, start |-> b.cursor,
                       end |-> IF isInclusiveRight(action.movement)
                               THEN m.nc + 1 ELSE m.nc,
                       nc |-> b.cursor, hlbegin |-> m.hlbegin, threw |-> FALSE]
    IN toRange(movement(b, action))

range(b, action) ==
    IF action.movement = "line" /\ action.direction \in {"up", "down"}
    THEN [none |-> FALSE, start |-> 0, end |-> Len(b.value), nc |-> 0,
          hlbegin |-> b.hlbegin, threw |-> FALSE]
    ELSE movement2range(b, action)

\* ------------------------------------------------------------------------
\* The world a key handler runs in: w = [fsm, box, regs, crashed, ndebug,
\* emitted].  Every operation below is skipped once an exception is in flight.

throw(w) == [w EXCEPT !.crashed = TRUE]

Snap(w) == [box |-> w.box, regs |-> w.regs]

NoMotion ==
    [movement |-> "none", direction |-> "none", character |-> "none",
     count |-> 0, register |-> "none"]

\* An emitted event: its name and arguments (a: action, direction or target,
\* mv: motion, ch: character, reg: register, n: count, typing, msg), the
\* TextBox and registers before and after its listeners ran (threw: a
\* listener threw), and the FSM's checkpoint_pending flag when it was emitted.
Event(ev) ==
    [ev |-> ev, a |-> "", mv |-> NoMotion, ch |-> "", reg |-> "", n |-> 0,
     typing |-> FALSE, msg |-> ""]

\* program.warn / screen.warn: the message reaches the status line.
warned(w, msg, what) ==
    IF w.crashed THEN w
    ELSE [w EXCEPT !.emitted = Append(@,
             [Event("warn") EXCEPT !.msg = msg, !.ch = what]
                 @@ [pre |-> Snap(w), post |-> Snap(w), threw |-> FALSE,
                     pending |-> w.fsm.checkpoint_pending])]

\* _refresh dereferences this.cursor: a null cursor is a TypeError.
refreshTextBox(w) ==
    IF w.crashed THEN w
    ELSE IF w.box.cursor = NoCursor THEN throw(w) ELSE w

reset(w) ==
    IF w.crashed THEN w
    ELSE LET cleared == [w.box EXCEPT !.value = <<>>, !.cursor = 0,
                                      !.hlbegin = NoCursor,
                                      !.history = HistList(HISTSIZE)]
         IN IF assertFails(w.ndebug, cleared.value)
            THEN throw([w EXCEPT !.box = cleared])
            ELSE refreshTextBox([w EXCEPT !.box =
                     [cleared EXCEPT
                         !.history = HistList_append(@, cleared.value),
                         !.prev = cleared.value]])

\* Save the current text to the history list if it changed since last time.
checkpoint(w) ==
    IF w.crashed THEN w
    ELSE IF w.box.value # w.box.prev
         THEN IF assertFails(w.ndebug, w.box.value) THEN throw(w)
              ELSE [w EXCEPT !.box.history = HistList_append(@, w.box.value),
                             !.box.prev = w.box.value]
         ELSE w

undo(w, count) ==
    IF w.crashed THEN w
    ELSE LET got(h, item) ==
                 IF assertFails(w.ndebug, item)
                 THEN throw([w EXCEPT !.box.history = h])
                 ELSE refreshTextBox([w EXCEPT !.box.history = h,
                                               !.box.value = item,
                                               !.box.prev = item])
         IN got(HistList_prev(w.box.history, count),
                HistList_item(HistList_prev(w.box.history, count)))

redo(w, count) ==
    IF w.crashed THEN w
    ELSE LET got(h, item) ==
                 IF assertFails(w.ndebug, item)
                 THEN throw([w EXCEPT !.box.history = h])
                 ELSE refreshTextBox([w EXCEPT !.box.history = h,
                                               !.box.value = item,
                                               !.box.prev = item])
         IN got(HistList_next(w.box.history, count),
                HistList_item(HistList_next(w.box.history, count)))

clamp_keepsAnchor(w) ==
    IF w.crashed THEN w
    ELSE IF w.box.cursor = NoCursor THEN throw(w)
    ELSE [w EXCEPT !.box.cursor =
             IF @ >= Len(w.box.value)
             THEN (IF Len(w.box.value) = 0 THEN 0
                   ELSE Min(@, Len(w.box.value) - 1))
             ELSE @]

\* Clamp the cursor if needed, and reset any abandoned state.
clamp(w) ==
    IF w.crashed THEN w
    ELSE IF w.box.cursor = NoCursor
         THEN throw([w EXCEPT !.box.hlbegin = NoCursor])
    ELSE LET len == Len(w.box.value)
             x == w.box.cursor
         IN [w EXCEPT !.box.hlbegin = NoCursor,
                      !.box.cursor =
                          IF x >= len
                          THEN (IF len = 0 THEN 0 ELSE Min(x, len - 1))
                          ELSE x]

\* _insert: splice text in at where and move the cursor right by
\* text.length + co (the cursor becomes null when that movement fails).
insert(w, where, co, text) ==
    IF w.crashed THEN w
    ELSE LET moved(b) ==
                 [w EXCEPT !.box =
                     [b EXCEPT !.cursor =
                         movement(b, [NoMotion EXCEPT
                                         !.movement = "char",
                                         !.direction = "right",
                                         !.count = Len(text) + co]).nc]]
         IN moved([w.box EXCEPT !.value =
                      Slice(@, 0, where) \o text \o SliceFrom(@, where)])

\* move and highlight: the cursor goes where the movement stops.
moveCursor(w, action) ==
    LET to(m) ==
            IF m.threw THEN throw(w)
            ELSE IF m.nc = NoCursor THEN [w EXCEPT !.box.hlbegin = m.hlbegin]
            ELSE refreshTextBox([w EXCEPT !.box.hlbegin = m.hlbegin,
                                          !.box.cursor = m.nc])
    IN IF w.crashed THEN w ELSE to(movement(w.box, action))

highlightText(w, action) ==
    LET to(m) ==
            IF m.threw THEN throw(w)
            ELSE IF m.nc = NoCursor THEN [w EXCEPT !.box.hlbegin = m.hlbegin]
            ELSE refreshTextBox([w EXCEPT
                     !.box.hlbegin = IF m.hlbegin = NoCursor THEN w.box.cursor
                                     ELSE m.hlbegin,
                     !.box.cursor = m.nc])
    IN IF w.crashed THEN w ELSE to(movement(w.box, action))

\* _transform with toggleCase, toLowerCase or toUpperCase.
transform(w, f, action) ==
    LET v == w.box.value
        apply(mid) ==
            CASE f = "toggleCase" -> toggleCase(mid)
              [] f = "toLowerCase" -> toLowerCase(mid)
              [] f = "toUpperCase" -> toUpperCase(mid)
        over(r) ==
            IF r.threw THEN throw(w)
            ELSE IF r.none THEN [w EXCEPT !.box.hlbegin = r.hlbegin]
            ELSE refreshTextBox([w EXCEPT
                     !.box.hlbegin = r.hlbegin,
                     !.box.value = Slice(v, 0, r.start)
                                       \o apply(Slice(v, r.start, r.end))
                                       \o SliceFrom(v, r.end),
                     !.box.cursor = r.end])
    IN IF w.crashed THEN w ELSE over(range(w.box, action))

togglecase(w, action) == transform(w, "toggleCase", action)
lowercase(w, action) == transform(w, "toLowerCase", action)
uppercase(w, action) == transform(w, "toUpperCase", action)

deleteText(w, action) ==
    LET v == w.box.value
        over(r) ==
            IF r.threw THEN throw(w)
            ELSE IF r.none THEN [w EXCEPT !.box.hlbegin = r.hlbegin]
            ELSE refreshTextBox([w EXCEPT
                     !.regs = updateRegister(@, "delete", action.register,
                                             Slice(v, r.start, r.end)),
                     !.box.hlbegin = r.hlbegin,
                     !.box.value = Slice(v, 0, r.start) \o SliceFrom(v, r.end),
                     !.box.cursor = r.nc])
    IN IF w.crashed THEN w ELSE over(range(w.box, action))

yankText(w, action) ==
    LET v == w.box.value
        over(r) ==
            IF r.threw THEN throw(w)
            ELSE IF r.none THEN [w EXCEPT !.box.hlbegin = r.hlbegin]
            ELSE refreshTextBox([w EXCEPT
                     !.regs = updateRegister(@, "yank", action.register,
                                             Slice(v, r.start, r.end)),
                     !.box.hlbegin = r.hlbegin,
                     !.box.cursor = r.nc])
    IN IF w.crashed THEN w ELSE over(range(w.box, action))

pasteText(w, where, what, count) ==
    LET x == w.box.cursor
        put(text) ==
            IF text = null THEN warned(w, "Nothing in register", what)
            ELSE IF where \notin {"before", "after"} THEN throw(w)
            ELSE refreshTextBox(
                     insert(w, IF where = "before" THEN x ELSE x + 1,
                            IF where = "before" THEN 0 - 1 ELSE 0,
                            repeat(text, count)))
    IN IF w.crashed THEN w ELSE put(getRegister(w.regs, what))

replaceText(w, ch, typing, action) ==
    LET v == w.box.value
        length(r) ==
            IF typing THEN Max(r.end - r.start, 1) ELSE r.end - r.start
        over(r) ==
            IF r.threw THEN throw(w)
            ELSE IF r.none THEN [w EXCEPT !.box.hlbegin = r.hlbegin]
            ELSE IF ~typing /\ length(r) < action.count
                 THEN [w EXCEPT !.box.hlbegin = r.hlbegin]
            ELSE refreshTextBox([w EXCEPT
                     !.box.hlbegin = r.hlbegin,
                     !.box.value = Slice(v, 0, r.start)
                                       \o repeat(<<ch>>, length(r))
                                       \o SliceFrom(v, r.end),
                     !.box.cursor = IF typing THEN @ + length(r) ELSE @])
    IN IF w.crashed THEN w ELSE over(range(w.box, action))

\* Restore characters from the current history item (backspace in REPLACE).
eraseText_deletes(w, action) ==
    LET v == w.box.value
        over(r) ==
            IF r.threw THEN throw(w)
            ELSE IF r.none THEN [w EXCEPT !.box.hlbegin = r.hlbegin]
            ELSE refreshTextBox([w EXCEPT
                     !.box.hlbegin = r.hlbegin,
                     !.box.value = Slice(v, 0, r.start) \o SliceFrom(v, r.end),
                     !.box.cursor = r.nc])
    IN IF w.crashed THEN w ELSE over(range(w.box, action))

eraseText(w, action) ==
    LET v == w.box.value
        prev == HistList_current(w.box.history)
        over(r) ==
            IF r.threw THEN throw(w)
            ELSE IF r.none THEN [w EXCEPT !.box.hlbegin = r.hlbegin]
            ELSE refreshTextBox([w EXCEPT
                     !.box.hlbegin = r.hlbegin,
                     !.box.value = IF prev # v
                                   THEN Slice(v, 0, r.start)
                                            \o Slice(prev, r.start, r.end)
                                            \o SliceFrom(v, r.end)
                                   ELSE v,
                     !.box.cursor = r.nc])
    IN IF w.crashed THEN w ELSE over(range(w.box, action))

\* Enter some new text (usually just a character) under the cursor.
type(w, ch) ==
    IF w.crashed THEN w
    ELSE refreshTextBox(insert(w, w.box.cursor, 0, <<ch>>))

editText(w, action, mv) ==
    CASE action = "move" -> moveCursor(w, mv)
      [] action = "highlight" -> highlightText(w, mv)
      [] action = "erase" -> eraseText(w, mv)
      [] action = "delete" -> deleteText(w, mv)
      [] action = "yank" -> yankText(w, mv)
      [] action = "togglecase" -> togglecase(w, mv)
      [] action = "uppercase" -> uppercase(w, mv)
      [] action = "lowercase" -> lowercase(w, mv)
      [] OTHER -> IF w.crashed THEN w ELSE throw(w)

\* If any text has been entered, reset the TextBox to be empty (the text goes
\* to the room).
submit(w) ==
    IF w.crashed THEN w
    ELSE IF w.box.value = <<>> THEN w
    ELSE reset(w)

\* ------------------------------------------------------------------------
\* Events: the FSM's emit() runs the listeners synchronously.  TextBox
\* listens to submit, clamp, type, edit, replace, paste, checkpoint, undo and
\* redo; the other events (warn, scroll, focus, window, mark, linejump,
\* charjump, clear, suspend, refresh) do not touch the TextBox.

listeners(w, e) ==
    CASE e.ev = "submit" -> submit(w)
      [] e.ev = "clamp" -> clamp(w)
      [] e.ev = "type" -> type(w, e.ch)
      [] e.ev = "edit" -> editText(w, e.a, e.mv)
      [] e.ev = "replace" -> replaceText(w, e.ch, e.typing, e.mv)
      [] e.ev = "paste" -> pasteText(w, e.a, e.reg, e.n)
      [] e.ev = "checkpoint" -> checkpoint(w)
      [] e.ev = "undo" -> undo(w, e.n)
      [] e.ev = "redo" -> redo(w, e.n)
      [] OTHER -> w

emit(w, e) ==
    IF w.crashed THEN w
    ELSE LET heard(w1) ==
                 [w1 EXCEPT !.emitted =
                     w.emitted
                         \o <<e @@ [pre |-> Snap(w), post |-> Snap(w1),
                                    threw |-> w1.crashed,
                                    pending |-> w.fsm.checkpoint_pending]>>
                         \o w1.emitted]
         IN heard(listeners([w EXCEPT !.emitted = <<>>], e))

\* ------------------------------------------------------------------------
\* ViChatFSM

D_LEFT == "left"
D_DOWN == "down"
D_UP == "up"
D_RIGHT == "right"

REGISTER_REGEX(ch) ==
    ch \in
    Range(LowerLetters) \cup Range(UpperLetters) \cup Digits
        \cup {".", ":", "%", "#", "/", "_", "\"", "=", "-"}

flipDirection(dir) == IF dir = D_LEFT THEN D_RIGHT ELSE D_LEFT

\* The object the constructor leaves, before the initial state is entered.
ViChatFSM ==
    [state |-> "none", valid |-> {"normal"}, count |-> 0, register |-> "null",
     charsearch_character |-> "null", charsearch_direction |-> D_RIGHT,
     charsearch_operation |-> "to-char", movement_action |-> "move",
     movement_actchar |-> "undefined", movement_poststate |-> "normal",
     checkpoint_pending |-> FALSE]

\* If a count has been entered, fetch it. Otherwise, default to 1.
getCount(f) == IF f.count = 0 THEN 1 ELSE f.count
gotCount(w) == IF w.crashed THEN w ELSE [w EXCEPT !.fsm.count = 0]

\* If a register has been specified, fetch it. Otherwise the blackhole
\* register in INSERT mode, and the default register everywhere else.
\* getRegister without the blackhole register of INSERT mode.
getRegisterName_unnamedInInsert(f) ==
    IF f.register = "null" THEN "\"" ELSE f.register

getRegisterName(f) ==
    IF f.state = "insert" THEN "_"
    ELSE IF f.register = "null" THEN "\"" ELSE f.register
gotRegister(w) ==
    IF w.crashed \/ w.fsm.state = "insert" THEN w
    ELSE [w EXCEPT !.fsm.register = "null"]

\* Emit an action with the provided parameters, and fetch any count or
\* register previously specified.
action(w, act, mvmt, direction, ch) ==
    IF w.crashed THEN w
    ELSE emit(gotRegister(gotCount(
                  [w EXCEPT !.fsm.checkpoint_pending = (act # "move") \/ @])),
              [Event("edit") EXCEPT
                  !.a = act,
                  !.mv = [movement |-> mvmt, direction |-> direction,
                          character |-> ch, count |-> getCount(w.fsm),
                          register |-> getRegisterName(w.fsm)]])

paste(w, direction) ==
    IF w.crashed THEN w
    ELSE emit(gotCount(gotRegister(
                  [w EXCEPT !.fsm.checkpoint_pending = TRUE])),
              [Event("paste") EXCEPT !.a = direction,
                                     !.reg = getRegisterName(w.fsm),
                                     !.n = getCount(w.fsm)])

\* The transitions each state declares with S.validTransitions.
validTransitions(state, poststate) ==
    CASE state = "normal" ->
             {"charjump", "charreplace", "charsearch", "goto", "insert",
              "linejump", "mark", "movement", "normal", "register", "replace",
              "visual", "wincmd"}
      [] state = "movement" -> {"charsearch", "insert", "normal"}
      [] state = "goto" -> {"movement", "normal"}
      [] state = "insert" -> {"insert", "normal", "paste"}
      [] state = "replace" -> {"normal", "paste", "replace"}
      [] state = "linejump" -> {"normal"}
      [] state = "charjump" -> {poststate}
      [] state = "charsearch" -> {"insert", "normal", "visual"}
      [] state = "mark" -> {"normal"}
      [] state = "paste" -> {"insert"}
      [] state = "register" -> {poststate}
      [] state = "charreplace" -> {"normal"}
      [] state = "visreplace" -> {"normal", "visual"}
      [] state = "visual" ->
             {"charsearch", "insert", "normal", "register", "visual",
              "visreplace"}
      [] state = "wincmd" -> {"normal"}

\* What each state function does on entry, besides registering its handlers.
state_normal_alwaysCheckpoints(w) ==
    LET w1 == [w EXCEPT !.fsm.count = 0, !.fsm.movement_action = "move",
                        !.fsm.movement_actchar = "null",
                        !.fsm.movement_poststate = "normal"]
        done(w3) ==
            IF w3.crashed THEN w3
            ELSE [w3 EXCEPT !.fsm.checkpoint_pending = FALSE]
    IN emit(done(emit(w1, Event("checkpoint"))), Event("clamp"))

state_normal(w) ==
    LET w1 == [w EXCEPT !.fsm.count = 0, !.fsm.movement_action = "move",
                        !.fsm.movement_actchar = "null",
                        !.fsm.movement_poststate = "normal"]
        done(w3) ==
            IF w3.crashed THEN w3
            ELSE [w3 EXCEPT !.fsm.checkpoint_pending = FALSE]
    IN emit(IF w1.fsm.checkpoint_pending
            THEN done(emit(w1, Event("checkpoint")))
            ELSE w1,
            Event("clamp"))

state_insert(w) ==
    [w EXCEPT !.fsm.movement_action = "move",
              !.fsm.movement_poststate = "insert",
              !.fsm.checkpoint_pending = TRUE]

state_replace(w) ==
    [w EXCEPT !.fsm.movement_action = "move",
              !.fsm.movement_poststate = "replace",
              !.fsm.checkpoint_pending = TRUE]

state_charreplace(w) == [w EXCEPT !.fsm.checkpoint_pending = TRUE]

state_visreplace(w) == [w EXCEPT !.fsm.checkpoint_pending = TRUE]

state_visual(w) ==
    [w EXCEPT !.fsm.movement_action = "highlight",
              !.fsm.movement_poststate = "visual"]

\* S.gotoState(to): an undeclared transition throws; otherwise the FSM is in
\* the new state and its state function runs.
gotoState(w, to) ==
    IF w.crashed THEN w
    ELSE IF to \notin w.fsm.valid THEN throw(w)
    ELSE LET w1 == [w EXCEPT
                       !.fsm.state = to,
                       !.fsm.valid =
                           validTransitions(to, w.fsm.movement_poststate)]
         IN CASE to = "normal" -> state_normal(w1)
              [] to = "insert" -> state_insert(w1)
              [] to = "replace" -> state_replace(w1)
              [] to = "charreplace" -> state_charreplace(w1)
              [] to = "visreplace" -> state_visreplace(w1)
              [] to = "visual" -> state_visual(w1)
              [] OTHER -> w1

\* S.gotoState through a handle that was already used to leave the state.
gotoStateAgain(w, to) == IF w.crashed THEN w ELSE throw(w)

\* ------------------------------------------------------------------------
\* Key handlers.  A key is pressed (a character), control-asserted (a name
\* such as "^[") or special-asserted (a name such as "left", with shift).
\* A handler is the sequence of statements the source runs for the key, read
\* off the FSM object f as the handler finds it; exec runs the statements.

Instr(op) ==
    [op |-> op, to |-> "", act |-> "", mvmt |-> "", direction |-> "",
     ch |-> "", e |-> Event("none"), field |-> "", val |-> "", n |-> 0]

GotoState(to) == [Instr("gotoState") EXCEPT !.to = to]
GotoStateAgain(to) == [Instr("gotoStateAgain") EXCEPT !.to = to]
Action(act, mvmt, direction, ch) ==
    [Instr("action") EXCEPT !.act = act, !.mvmt = mvmt,
                            !.direction = direction, !.ch = ch]
Paste(direction) == [Instr("paste") EXCEPT !.direction = direction]
Emit(e) == [Instr("emit") EXCEPT !.e = e]
GetCount == Instr("getCount")
GetRegister == Instr("getRegister")
Assign(field, val) == [Instr("assign") EXCEPT !.field = field, !.val = val]
SetCount(n) == [Instr("setCount") EXCEPT !.n = n]

Warn(msg, what) == Emit([Event("warn") EXCEPT !.msg = msg, !.ch = what])
NYI(mode, what) ==
    Emit([Event("warn") EXCEPT !.msg = "Not yet implemented in mode",
                               !.a = mode, !.ch = what])
Scroll(direction, kind, count) ==
    Emit([Event("scroll") EXCEPT !.a = direction, !.msg = kind, !.n = count])
Focus(target, direction, count) ==
    Emit([Event("focus") EXCEPT !.a = target, !.msg = direction, !.n = count])
Window(act, direction, count) ==
    Emit([Event("window") EXCEPT !.a = act, !.msg = direction, !.n = count])

\* The values getCount() and getRegister() return for the FSM object f.
Motion(mvmt, direction, count, register) ==
    [movement |-> mvmt, direction |-> direction, character |-> "undefined",
     count |-> count, register |-> register]

MovementControlKeys == {"^?", "^H"}
MovementSpecialKeys == {"end", "home", "left", "right", "up", "down"}
MovementKeys ==
    {"h", "l", " ", "b", "w", "e", "^", "$", "0", "t", "T", "f", "F", ";", ","}
CountKeys == {"1", "2", "3", "4", "5", "6", "7", "8", "9"}

\* lch >= 'a' && lch <= 'z'
isMarkName(ch) == toLowerChar(ch) \in Range(LowerLetters)

processMovementControl(f, k) ==
    <<Action(f.movement_action, "char", D_LEFT, "undefined"),
      GotoState(f.movement_poststate)>>

processMovementSpecial(f, name, shift) ==
    LET go(mvmt, direction) ==
            <<Action(f.movement_action, mvmt, direction, "undefined"),
              GotoState(f.movement_poststate)>>
    IN CASE name = "end" -> go("line", D_RIGHT)
         [] name = "home" -> go("line", D_LEFT)
         [] name \in {"left", "right", "up", "down"} ->
                IF shift THEN go("word-begin", name) ELSE go("char", name)

processMovementKey(f, ch) ==
    LET go(mvmt, direction, c) ==
            <<Action(f.movement_action, mvmt, direction, c),
              GotoState(f.movement_poststate)>>
        search(direction, operation) ==
            <<Assign("charsearch_direction", direction),
              Assign("charsearch_operation", operation),
              GotoState("charsearch")>>
    IN CASE ch = "h" -> go("char", D_LEFT, "undefined")
         [] ch \in {"l", " "} -> go("char", D_RIGHT, "undefined")
         [] ch = "b" -> go("word-begin", D_LEFT, "undefined")
         [] ch = "w" -> go("word-begin", D_RIGHT, "undefined")
         [] ch = "e" -> go("word-end", D_RIGHT, "undefined")
         [] ch = "^" -> go("line", "first-word", "undefined")
         [] ch = "$" -> go("line", D_RIGHT, "undefined")
         [] ch = "0" -> IF f.count = 0
                        THEN go("line", D_LEFT, "undefined")
                        ELSE <<SetCount(f.count * 10)>>
         [] ch = "t" -> search(D_RIGHT, "till-char")
         [] ch = "T" -> search(D_LEFT, "till-char")
         [] ch = "f" -> search(D_RIGHT, "to-char")
         [] ch = "F" -> search(D_LEFT, "to-char")
         [] ch = ";" -> go(f.charsearch_operation, f.charsearch_direction,
                           f.charsearch_character)
         [] ch = "," -> go(f.charsearch_operation,
                           flipDirection(f.charsearch_direction),
                           f.charsearch_character)

processCount(f, ch) == <<SetCount(f.count * 10 + DigitValue(ch))>>

\* An operator key: remember it and wait for its movement.
operator_keepsPoststate(actchar, act, poststate) ==
    <<Assign("movement_actchar", actchar), Assign("movement_action", act),
      GotoState("movement")>>

operator(actchar, act, poststate) ==
    <<Assign("movement_actchar", actchar), Assign("movement_action", act),
      Assign("movement_poststate", poststate), GotoState("movement")>>

normal_asserted(f, key) ==
    LET controlAsserted(k) ==
            CASE k \in MovementControlKeys -> processMovementControl(f, k)
              [] k = "^C" ->
                     IF f.count = 0
                     THEN <<Warn("Type :quit<Enter> to exit iamb", k),
                            GotoState("normal")>>
                     ELSE <<GotoState("normal")>>
              [] k = "^[" -> <<GotoState("normal")>>
              [] k \in {"^J", "^M"} -> <<Emit(Event("submit"))>>
              [] k = "^U" -> <<GetCount, Scroll("up", "half-screen", getCount(f))>>
              [] k = "^D" -> <<GetCount, Scroll("down", "half-screen", getCount(f))>>
              [] k = "^B" -> <<GetCount, Scroll("up", "screen", getCount(f))>>
              [] k = "^F" -> <<GetCount, Scroll("down", "screen", getCount(f))>>
              [] k \in {"^P", "^Y"} -> <<GetCount, Scroll("up", "line", getCount(f))>>
              [] k \in {"^N", "^E"} -> <<GetCount, Scroll("down", "line", getCount(f))>>
              [] k = "^R" ->
                     <<GetCount, Emit([Event("redo") EXCEPT !.n = getCount(f)]),
                       GotoState("normal")>>
              [] k = "^W" -> <<GotoState("wincmd")>>
              [] k = "^Z" -> <<Emit(Event("suspend"))>>
              [] k = "^L" -> <<Emit(Event("refresh"))>>
              [] k = "^I" -> <<GetCount, Focus("history", "next", getCount(f))>>
              [] k = "^O" -> <<GetCount, Focus("history", "previous", getCount(f))>>
              [] OTHER -> <<NYI("normal", k)>>
        specialAsserted(name, shift) ==
            CASE name \in MovementSpecialKeys -> processMovementSpecial(f, name, shift)
              [] name = "prior" -> <<GetCount, Scroll("up", "screen", getCount(f))>>
              [] name = "next" -> <<GetCount, Scroll("down", "screen", getCount(f))>>
              [] name = "delete" -> <<Action("delete", "char", D_RIGHT, "undefined")>>
              [] OTHER -> <<NYI("normal", name)>>
        pressAsserted(ch) ==
            LET moveThenInsert(mvmt, direction) ==
                    <<GetRegister,
                      Emit([Event("edit") EXCEPT
                               !.a = "move",
                               !.mv = Motion(mvmt, direction, 1, getRegisterName(f))]),
                      GotoState("insert")>>
            IN CASE ch \in MovementKeys -> processMovementKey(f, ch)
                 [] ch \in CountKeys -> processCount(f, ch)
                 [] ch = "G" -> <<Scroll("bottom", "undefined", 0)>>
                 [] ch = "j" -> <<GetCount, Scroll("down", "line", getCount(f))>>
                 [] ch = "k" -> <<GetCount, Scroll("up", "line", getCount(f))>>
                 [] ch = "p" -> <<Paste("after"), GotoState("normal")>>
                 [] ch = "P" -> <<Paste("before"), GotoState("normal")>>
                 [] ch = "u" ->
                        <<GetCount, Emit([Event("undo") EXCEPT !.n = getCount(f)]),
                          GotoState("normal")>>
                 [] ch \in {"n", "N", "K", "?", "/"} -> <<NYI("normal", ch)>>
                 [] ch = ":" -> <<Focus("command", "undefined", 0)>>
                 [] ch = "m" -> <<GotoState("mark")>>
                 [] ch = "\"" -> <<GotoState("register")>>
                 [] ch = "I" -> moveThenInsert("line", D_LEFT)
                 [] ch = "i" -> <<GotoState("insert")>>
                 [] ch = "A" -> moveThenInsert("line", D_RIGHT)
                 [] ch = "a" -> moveThenInsert("char", D_RIGHT)
                 [] ch = "'" -> <<GotoState("linejump")>>
                 [] ch = "backtick" -> <<GotoState("charjump")>>
                 [] ch = "v" -> <<GotoState("visual")>>
                 [] ch = "y" -> operator("y", "yank", "normal")
                 [] ch = "d" -> operator("d", "delete", "normal")
                 [] ch = "c" -> operator("c", "delete", "insert")
                 [] ch = "C" ->
                        <<Action("delete", "line", D_RIGHT, "undefined"),
                          GotoState("insert")>>
                 [] ch = "g" -> <<GotoState("goto")>>
                 [] ch = "r" -> <<GotoState("charreplace")>>
                 [] ch = "R" -> <<GotoState("replace")>>
                 [] ch = "S" ->
                        <<Action("delete", "line", D_DOWN, "undefined"),
                          GotoState("insert")>>
                 [] ch = "s" ->
                        <<Action("delete", "char", D_RIGHT, "undefined"),
                          GotoState("insert")>>
                 [] ch = "D" ->
                        <<Action("delete", "line", D_RIGHT, "undefined"),
                          GotoState("normal")>>
                 [] ch = "x" ->
                        <<Action("delete", "char", D_RIGHT, "undefined"),
                          GotoState("normal")>>
                 [] ch = "~" ->
                        <<Action("togglecase", "char", D_RIGHT, "undefined"),
                          GotoState("normal")>>
                 [] OTHER -> <<NYI("normal", ch)>>
    IN CASE key.kind = "control" -> controlAsserted(key.name)
         [] key.kind = "special" -> specialAsserted(key.name, key.shift)
         [] key.kind = "press" -> pressAsserted(key.name)

movement_asserted(f, key) ==
    LET controlAsserted(k) ==
            CASE k \in MovementControlKeys -> processMovementControl(f, k)
              [] k \in {"^C", "^["} -> <<GotoState("normal")>>
              [] OTHER -> <<NYI("movement", k), GotoState("normal")>>
        specialAsserted(name, shift) ==
            CASE name \in MovementSpecialKeys -> processMovementSpecial(f, name, shift)
              [] OTHER -> <<NYI("movement", name), GotoState("normal")>>
        pressAsserted(ch) ==
            CASE ch = f.movement_actchar ->
                     <<Action(f.movement_action, "line", D_DOWN, "undefined"),
                       GotoState(f.movement_poststate)>>
              [] ch # f.movement_actchar /\ ch \in MovementKeys ->
                     processMovementKey(f, ch)
              [] ch # f.movement_actchar /\ ch \in CountKeys -> processCount(f, ch)
              [] OTHER -> <<NYI("movement", ch), GotoState("normal")>>
    IN CASE key.kind = "control" -> controlAsserted(key.name)
         [] key.kind = "special" -> specialAsserted(key.name, key.shift)
         [] key.kind = "press" -> pressAsserted(key.name)

goto_asserted(f, key) ==
    LET controlAsserted(k) ==
            CASE k \in {"^C", "^["} -> <<GotoState("normal")>>
              [] OTHER -> <<NYI("goto", k), GotoState("normal")>>
        specialAsserted(name, shift) ==
            CASE name \in {"up", "down"} ->
                     <<GetCount, Scroll(name, "char", getCount(f)), GotoState("normal")>>
              [] OTHER -> <<NYI("goto", name), GotoState("normal")>>
        pressAsserted(ch) ==
            CASE ch \in CountKeys -> processCount(f, ch)
              [] ch = "e" ->
                     <<Action("move", "word-end", D_LEFT, "undefined"),
                       GotoState("normal")>>
              [] ch = "g" -> <<Scroll("top", "undefined", 0), GotoState("normal")>>
              [] ch = "j" ->
                     <<GetCount, Scroll("down", "line", getCount(f)),
                       GotoState("normal")>>
              [] ch = "k" ->
                     <<GetCount, Scroll("up", "line", getCount(f)), GotoState("normal")>>
              [] ch = "^" ->
                     <<Action("move", "line", "first-word", "undefined"),
                       GotoState("normal")>>
              [] ch = "$" ->
                     <<Action("move", "line", D_RIGHT, "undefined"),
                       GotoState("normal")>>
              [] ch = "0" ->
                     IF f.count = 0
                     THEN <<Action("move", "line", D_LEFT, "undefined"),
                            GotoState("normal")>>
                     ELSE <<SetCount(f.count * 10), GotoState("normal")>>
              [] ch = "~" -> operator("~", "togglecase", "normal")
              [] ch = "u" -> operator("u", "lowercase", "normal")
              [] ch = "U" -> operator("U", "uppercase", "normal")
              [] ch = "l" -> <<Focus("lobby", "undefined", 0), GotoState("normal")>>
              [] OTHER -> <<NYI("goto", ch), GotoState("normal")>>
    IN CASE key.kind = "control" -> controlAsserted(key.name)
         [] key.kind = "special" -> specialAsserted(key.name, key.shift)
         [] key.kind = "press" -> pressAsserted(key.name)

insert_asserted(f, key) ==
    LET controlAsserted(k) ==
            CASE k \in {"^C", "^["} -> <<GotoState("normal")>>
              [] k = "^R" -> <<GotoState("paste")>>
              [] k = "^Z" -> <<Emit(Event("suspend"))>>
              [] k = "^L" -> <<Emit(Event("refresh"))>>
              [] k \in {"^?", "^H"} -> <<Action("delete", "char", D_LEFT, "undefined")>>
              [] k \in {"^J", "^M"} -> <<Emit(Event("submit"))>>
              [] k = "^U" -> <<Emit(Event("clear"))>>
              [] OTHER -> <<NYI("insert", k)>>
        specialAsserted(name, shift) ==
            CASE name \in MovementSpecialKeys -> processMovementSpecial(f, name, shift)
              [] name = "prior" -> <<GetCount, Scroll("up", "screen", getCount(f))>>
              [] name = "next" -> <<GetCount, Scroll("down", "screen", getCount(f))>>
              [] name = "delete" -> <<Action("delete", "char", D_RIGHT, "undefined")>>
              [] OTHER -> <<NYI("insert", name)>>
        pressAsserted(ch) ==
            <<Emit([Event("type") EXCEPT !.ch = ch])>>
    IN CASE key.kind = "control" -> controlAsserted(key.name)
         [] key.kind = "special" -> specialAsserted(key.name, key.shift)
         [] key.kind = "press" -> pressAsserted(key.name)

replace_asserted(f, key) ==
    LET controlAsserted(k) ==
            CASE k \in {"^C", "^["} -> <<GotoState("normal")>>
              [] k = "^R" -> <<GotoState("paste")>>
              [] k = "^Z" -> <<Emit(Event("suspend"))>>
              [] k = "^L" -> <<Emit(Event("refresh"))>>
              [] k \in {"^?", "^H"} -> <<Action("erase", "char", D_LEFT, "undefined")>>
              [] k \in {"^J", "^M"} -> <<Emit(Event("submit"))>>
              [] k = "^U" -> <<Emit(Event("clear"))>>
              [] OTHER -> <<NYI("replace", k)>>
        specialAsserted(name, shift) ==
            CASE name \in MovementSpecialKeys ->
                     processMovementSpecial(f, name, shift)
                         \o <<Emit(Event("checkpoint"))>>
              [] name = "prior" -> <<GetCount, Scroll("up", "screen", getCount(f))>>
              [] name = "next" -> <<GetCount, Scroll("down", "screen", getCount(f))>>
              [] name = "delete" -> <<Action("erase", "char", D_LEFT, "undefined")>>
              [] OTHER -> <<NYI("replace", name)>>
        pressAsserted(ch) ==
            <<GetRegister,
              Emit([Event("replace") EXCEPT
                       !.ch = ch, !.typing = TRUE,
                       !.mv = Motion("char", D_RIGHT, 1, getRegisterName(f))])>>
    IN CASE key.kind = "control" -> controlAsserted(key.name)
         [] key.kind = "special" -> specialAsserted(key.name, key.shift)
         [] key.kind = "press" -> pressAsserted(key.name)

linejump_asserted(f, key) ==
    LET controlAsserted(k) ==
            CASE k = "^[" -> <<GotoState("normal")>>
              [] OTHER -> <<Warn("Unknown mark", k), GotoState("normal")>>
        specialAsserted(name, shift) ==
            <<Warn("Unknown mark", name), GotoState("normal")>>
        pressAsserted(ch) ==
            IF isMarkName(ch)
            THEN <<Emit([Event("linejump") EXCEPT !.ch = ch]), GotoState("normal")>>
            ELSE <<Warn("Unkown mark", ch), GotoState("normal")>>
    IN CASE key.kind = "control" -> controlAsserted(key.name)
         [] key.kind = "special" -> specialAsserted(key.name, key.shift)
         [] key.kind = "press" -> pressAsserted(key.name)

charjump_asserted(f, key) ==
    LET controlAsserted(k) ==
            CASE k = "^[" -> <<GotoState(f.movement_poststate)>>
              [] OTHER -> <<Warn("Unknown mark", k), GotoState(f.movement_poststate)>>
        specialAsserted(name, shift) ==
            <<Warn("Unknown mark", name), GotoState(f.movement_poststate)>>
        pressAsserted(ch) ==
            IF isMarkName(ch)
            THEN <<Emit([Event("charjump") EXCEPT !.ch = ch]),
                   GotoState(f.movement_poststate)>>
            ELSE <<Warn("Unknown mark", ch), GotoState(f.movement_poststate)>>
    IN CASE key.kind = "control" -> controlAsserted(key.name)
         [] key.kind = "special" -> specialAsserted(key.name, key.shift)
         [] key.kind = "press" -> pressAsserted(key.name)

charsearch_asserted(f, key) ==
    LET controlAsserted(k) ==
            <<NYI("charsearch", k), GotoState("normal")>>
        specialAsserted(name, shift) ==
            <<GotoState("normal")>>
        pressAsserted(ch) ==
            <<Assign("charsearch_character", ch),
              Action(f.movement_action, f.charsearch_operation,
                     f.charsearch_direction, ch),
              GotoState(f.movement_poststate)>>
    IN CASE key.kind = "control" -> controlAsserted(key.name)
         [] key.kind = "special" -> specialAsserted(key.name, key.shift)
         [] key.kind = "press" -> pressAsserted(key.name)

mark_asserted(f, key) ==
    LET controlAsserted(k) ==
            <<GotoState("normal")>>
        specialAsserted(name, shift) ==
            <<GotoState("normal")>>
        pressAsserted(ch) ==
            IF isMarkName(ch)
            THEN <<Emit([Event("mark") EXCEPT !.ch = ch]), GotoState("normal")>>
            ELSE <<GotoState("normal")>>
    IN CASE key.kind = "control" -> controlAsserted(key.name)
         [] key.kind = "special" -> specialAsserted(key.name, key.shift)
         [] key.kind = "press" -> pressAsserted(key.name)

paste_asserted(f, key) ==
    LET controlAsserted(k) ==
            <<GotoState("insert")>>
        specialAsserted(name, shift) ==
            <<GotoState("insert")>>
        pressAsserted(ch) ==
            IF REGISTER_REGEX(ch)
            THEN <<Emit([Event("paste") EXCEPT !.a = "before", !.reg = ch, !.n = 1]),
                   GotoState("insert")>>
            ELSE <<GotoState("insert")>>
    IN CASE key.kind = "control" -> controlAsserted(key.name)
         [] key.kind = "special" -> specialAsserted(key.name, key.shift)
         [] key.kind = "press" -> pressAsserted(key.name)

register_asserted(f, key) ==
    LET controlAsserted(k) ==
            <<NYI("register", k), GotoState(f.movement_poststate)>>
        specialAsserted(name, shift) ==
            <<NYI("register", name), GotoState(f.movement_poststate)>>
        pressAsserted(ch) ==
            IF REGISTER_REGEX(ch)
            THEN <<Assign("register", ch), GotoState(f.movement_poststate)>>
            ELSE <<Warn("Invalid register name", ch), GotoState(f.movement_poststate)>>
    IN CASE key.kind = "control" -> controlAsserted(key.name)
         [] key.kind = "special" -> specialAsserted(key.name, key.shift)
         [] key.kind = "press" -> pressAsserted(key.name)

charreplace_asserted(f, key) ==
    LET controlAsserted(k) ==
            CASE k \in {"^C", "^["} -> <<GotoState("normal")>>
              [] OTHER -> <<NYI("charreplace", k), GotoState("normal")>>
        specialAsserted(name, shift) ==
            <<NYI("charreplace", name), GotoState("normal")>>
        pressAsserted(ch) ==
            <<GetCount, GetRegister,
              Emit([Event("replace") EXCEPT
                       !.ch = ch, !.typing = FALSE,
                       !.mv = Motion("char", D_RIGHT, getCount(f), getRegisterName(f))]),
              GotoState("normal")>>
    IN CASE key.kind = "control" -> controlAsserted(key.name)
         [] key.kind = "special" -> specialAsserted(key.name, key.shift)
         [] key.kind = "press" -> pressAsserted(key.name)

\* The count of this movement is undefined (written 0): no comparison with
\* it is ever true.
visreplace_asserted_alwaysToNormal(f, key) == <<GotoState("normal")>>

visreplace_asserted(f, key) ==
    LET controlAsserted(k) ==
            CASE k \in {"^C", "^["} -> <<GotoState("visual")>>
              [] OTHER -> <<NYI("visreplace", k), GotoState("normal")>>
        specialAsserted(name, shift) ==
            <<NYI("visreplace", name), GotoState("normal")>>
        pressAsserted(ch) ==
            <<GetRegister,
              Emit([Event("replace") EXCEPT
                       !.ch = ch, !.typing = FALSE,
                       !.mv = Motion("highlight", "undefined", 0, getRegisterName(f))]),
              GotoState("normal")>>
    IN CASE key.kind = "control" -> controlAsserted(key.name)
         [] key.kind = "special" -> specialAsserted(key.name, key.shift)
         [] key.kind = "press" -> pressAsserted(key.name)

\* After "c" has gone to INSERT, the handler falls out of the switch to the
\* final gotoState('normal'), on the handle it has just used.
visual_asserted(f, key) ==
    LET controlAsserted(k) ==
            CASE k \in {"^C", "^["} -> <<GotoState("normal")>>
              [] k = "^?" ->
                     <<Action("delete", "highlight", "undefined", "undefined"),
                       GotoState("normal")>>
              [] k = "^H" -> <<Action("highlight", "char", D_LEFT, "undefined")>>
              [] OTHER -> <<NYI("visual", k)>>
        specialAsserted(name, shift) ==
            CASE name \in MovementSpecialKeys -> processMovementSpecial(f, name, shift)
              [] name = "delete" ->
                     <<Action("delete", "highlight", "undefined", "undefined"),
                       GotoState("normal")>>
              [] OTHER -> <<NYI("visual", name), GotoState("normal")>>
        pressAsserted(ch) ==
            LET act(a) ==
                    <<Action(a, "highlight", "undefined", "undefined"),
                      GotoState("normal")>>
            IN CASE ch \in MovementKeys -> processMovementKey(f, ch)
                 [] ch \in CountKeys -> processCount(f, ch)
                 [] ch = "r" -> <<GotoState("visreplace")>>
                 [] ch = "\"" -> <<GotoState("register")>>
                 [] ch = "backtick" -> <<GotoState("charjump")>>
                 [] ch = ":" -> <<Focus("command", "undefined", 0)>>
                 [] ch = "c" ->
                        <<Action("delete", "highlight", "undefined", "undefined"),
                          GotoState("insert"), GotoStateAgain("normal")>>
                 [] ch \in {"d", "x"} -> act("delete")
                 [] ch = "y" -> act("yank")
                 [] ch = "v" -> <<GotoState("normal")>>
                 [] ch = "~" -> act("togglecase")
                 [] ch = "u" -> act("lowercase")
                 [] ch = "U" -> act("uppercase")
                 [] OTHER -> <<NYI("visual", ch)>>
    IN CASE key.kind = "control" -> controlAsserted(key.name)
         [] key.kind = "special" -> specialAsserted(key.name, key.shift)
         [] key.kind = "press" -> pressAsserted(key.name)

wincmd_asserted(f, key) ==
    LET controlAsserted(k) ==
            LET n == getCount(f)
            IN (CASE k \in {"^C", "^["} -> <<>>
                  [] k = "^H" -> <<GetCount, Focus("window", D_LEFT, n)>>
                  [] k = "^J" -> <<GetCount, Focus("window", D_DOWN, n)>>
                  [] k = "^K" -> <<GetCount, Focus("window", D_UP, n)>>
                  [] k = "^L" -> <<GetCount, Focus("window", D_RIGHT, n)>>
                  [] k = "^B" -> <<Focus("window", "bottom", 0)>>
                  [] k = "^T" -> <<Focus("window", "top", 0)>>
                  [] k = "^W" -> <<Focus("window", "next", f.count)>>
                  [] k = "^S" -> <<Window("split", "horizontal", f.count)>>
                  [] k = "^V" -> <<Window("split", "vertical", f.count)>>
                  [] k = "^Z" -> <<Focus("window", "zoom", 0)>>
                  [] OTHER -> <<NYI("wincmd", k)>>)
               \o <<GotoState("normal")>>
        specialAsserted(name, shift) ==
            CASE name \in {"left", "right", "up", "down"} ->
                     <<GetCount, Focus("window", name, getCount(f)),
                       GotoState("normal")>>
              [] OTHER -> <<NYI("wincmd", name), GotoState("normal")>>
        pressAsserted(ch) ==
            LET n == getCount(f)
            IN IF ch \in CountKeys THEN processCount(f, ch)
               ELSE (CASE ch = "-" -> <<GetCount, Window("resize", "horizontal", 0 - n)>>
                       [] ch = "+" -> <<GetCount, Window("resize", "horizontal", n)>>
                       [] ch = "<" -> <<GetCount, Window("resize", "vertical", 0 - n)>>
                       [] ch = ">" -> <<GetCount, Window("resize", "vertical", n)>>
                       [] ch = "=" -> <<Window("resize", "equal", 0)>>
                       [] ch = "r" -> <<GetCount, Window("rotate", "down", n)>>
                       [] ch = "R" -> <<GetCount, Window("rotate", "up", n)>>
                       [] ch = "b" -> <<Focus("window", "bottom", 0)>>
                       [] ch = "t" -> <<Focus("window", "top", 0)>>
                       [] ch = "w" -> <<Focus("window", "next", f.count)>>
                       [] ch = "W" -> <<Focus("window", "previous", f.count)>>
                       [] ch = "h" -> <<GetCount, Focus("window", D_LEFT, n)>>
                       [] ch = "j" -> <<GetCount, Focus("window", D_DOWN, n)>>
                       [] ch = "k" -> <<GetCount, Focus("window", D_UP, n)>>
                       [] ch = "l" -> <<GetCount, Focus("window", D_RIGHT, n)>>
                       [] ch = "s" -> <<Window("split", "horizontal", f.count)>>
                       [] ch = "v" -> <<Window("split", "vertical", f.count)>>
                       [] ch = "z" -> <<Focus("window", "zoom", 0)>>
                       [] OTHER -> <<NYI("wincmd", ch)>>)
                    \o <<GotoState("normal")>>
    IN CASE key.kind = "control" -> controlAsserted(key.name)
         [] key.kind = "special" -> specialAsserted(key.name, key.shift)
         [] key.kind = "press" -> pressAsserted(key.name)

\* press / control / special: the handler the current state registered runs.
handler(f, key) ==
    CASE f.state = "normal" -> normal_asserted(f, key)
      [] f.state = "movement" -> movement_asserted(f, key)
      [] f.state = "goto" -> goto_asserted(f, key)
      [] f.state = "insert" -> insert_asserted(f, key)
      [] f.state = "replace" -> replace_asserted(f, key)
      [] f.state = "linejump" -> linejump_asserted(f, key)
      [] f.state = "charjump" -> charjump_asserted(f, key)
      [] f.state = "charsearch" -> charsearch_asserted(f, key)
      [] f.state = "mark" -> mark_asserted(f, key)
      [] f.state = "paste" -> paste_asserted(f, key)
      [] f.state = "register" -> register_asserted(f, key)
      [] f.state = "charreplace" -> charreplace_asserted(f, key)
      [] f.state = "visreplace" -> visreplace_asserted(f, key)
      [] f.state = "visual" -> visual_asserted(f, key)
      [] f.state = "wincmd" -> wincmd_asserted(f, key)

\* One statement of a handler.
step(w, i) ==
    CASE i.op = "gotoState" -> gotoState(w, i.to)
      [] i.op = "gotoStateAgain" -> gotoStateAgain(w, i.to)
      [] i.op = "action" -> action(w, i.act, i.mvmt, i.direction, i.ch)
      [] i.op = "paste" -> paste(w, i.direction)
      [] i.op = "emit" -> emit(w, i.e)
      [] i.op = "getCount" -> gotCount(w)
      [] i.op = "getRegister" -> gotRegister(w)
      [] i.op = "assign" -> [w EXCEPT !.fsm = [@ EXCEPT ![i.field] = i.val]]
      [] i.op = "setCount" -> [w EXCEPT !.fsm.count = i.n]

\* The statements run in order; an exception ends the handler.
RECURSIVE exec(_, _)
exec(w, prog) ==
    IF prog = <<>> \/ w.crashed THEN w
    ELSE exec(step(w, Head(prog)), Tail(prog))

\* ------------------------------------------------------------------------
\* The program: construction, and keys arriving one at a time.

MaxKeys == 3
MaxCount == 3
TrailLen == 3

\* new ViChatFSM() enters NORMAL (nothing listens yet); new TextBox() resets
\* itself, which fails HistList's assertion on the empty string unless
\* assertions are disabled.
Construct(nd) ==
    LET f == [ViChatFSM EXCEPT
                 !.state = "normal",
                 !.valid = validTransitions("normal", "normal"),
                 !.movement_actchar = "null"]
        b == [value |-> <<>>, cursor |-> 0, hlbegin |-> NoCursor,
              history |-> HistList(HISTSIZE), prev |-> null]
    IN reset([fsm |-> f, box |-> b, regs |-> RegisterManager,
              crashed |-> FALSE, ndebug |-> nd, emitted |-> <<>>])

Pressed(ch) == [kind |-> "press", name |-> ch, shift |-> FALSE]
Controlled(k) == [kind |-> "control", name |-> k, shift |-> FALSE]
Specialed(name, shift) == [kind |-> "special", name |-> name, shift |-> shift]

deliver(w, k) == exec(w, handler(w.fsm, k))

RECURSIVE run(_, _)
run(w, ks) == IF ks = <<>> THEN w ELSE run(deliver(w, Head(ks)), Tail(ks))

\* The keys that type a text into the buffer: i, the text, <Esc>.
Typed(text) ==
    <<Pressed("i")>> \o [i \in 1..Len(text) |-> Pressed(text[i])]
        \o <<Controlled("^[")>>

Keys(chars) == [i \in 1..Len(chars) |-> Pressed(chars[i])]

\* The program after it was constructed and has handled the keys of one of
\* the scripts.  A program whose construction threw never sees a key.
Booted(scripts) ==
    \E nd \in BOOLEAN, script \in scripts :
        /\ nd \/ script = <<>>
        /\ LET started(w) ==
                   /\ fsm = w.fsm
                   /\ box = w.box
                   /\ regs = w.regs
                   /\ crashed = w.crashed
                   /\ ndebug = w.ndebug
           IN started(run(Construct(nd), script))
        /\ emitted = <<>>
        /\ trail = <<>>
        /\ budget = MaxKeys
        /\ probe = script
        /\ pane = null
        /\ hist = null
        /\ simple = null
        /\ screen = null
        /\ win = null

\* One key is delivered and its handler runs to the end (or throws).  The
\* count a key leaves is at most MaxCount, unless the key left it alone or the
\* key is the 0 that multiplies it by ten.
Key(k) ==
    /\ budget > 0
    /\ LET handled(w) ==
               /\ \/ w.fsm.count <= MaxCount
                  \/ w.fsm.count = fsm.count
                  \/ k = Pressed("0")
               /\ fsm' = w.fsm
               /\ box' = w.box
               /\ regs' = w.regs
               /\ crashed' = w.crashed
               /\ emitted' = w.emitted
       IN handled(deliver([fsm |-> fsm, box |-> box, regs |-> regs,
                           crashed |-> crashed, ndebug |-> ndebug,
                           emitted |-> <<>>], k))
    /\ trail' = LET t == Append(trail, [key |-> k,
                                        pre |-> [fsm |-> fsm, box |-> box,
                                                 regs |-> regs]])
                IN IF Len(t) > TrailLen THEN Tail(t) ELSE t
    /\ budget' = budget - 1
    /\ UNCHANGED <<ndebug, probe, pane, hist, simple, win, screen>>

\* The program is gone once an exception went uncaught.
Press(ch) ==
    /\ ~crashed
    /\ Key(Pressed(ch))

Control(k) ==
    /\ ~crashed
    /\ Key(Controlled(k))

Special(name, shift) ==
    /\ ~crashed
    /\ Key(Specialed(name, shift))

\* ------------------------------------------------------------------------
\* Editing, undo and redo.

Hello == <<"h", "e", "l", "l", "o">>

\* An empty buffer, or one into which ab, "a ba" or hello was typed.
Init ==
    Booted({<<>>, Typed(<<"a", "b">>), Typed(<<"a", " ", "b", "a">>),
            Typed(Hello)})

Next ==
    \/ \E ch \in {"a", "i", "x", "d", "w", "u", "P", "D"} : Press(ch)
    \/ \E k \in {"^[", "^R", "^M"} : Control(k)
    \/ \E name \in {"delete"} : Special(name, FALSE)

Spec == Init /\ [][Next]_vars

\* ------------------------------------------------------------------------
\* Properties of editing, undo and redo (Spec).

\* The key sequences of NORMAL mode that delete: x, D, the Delete key, dd and
\* d followed by a motion key.
DeletingKeys ==
    {<<Pressed("x")>>, <<Pressed("D")>>, <<Specialed("delete", FALSE)>>}
        \cup {<<Pressed("d"), Pressed(m)>> :
                  m \in {"d", "w", "b", "e", "h", "l", "0", "$"}}

\* The last n keys handled, oldest first.
LastKeys(n) == [i \in 1..n |-> trail[Len(trail) - n + i].key]

\* C1: starting in NORMAL mode from a buffer whose value equals the current
\* history snapshot, one delete through a NORMAL-mode deleting key (x, D,
\* d<motion>, dd or the Delete key) that removes text, followed by u with no
\* count, leaves value equal to the value before the delete.
C1_UndoRestoresDelete ==
    \A n \in {1, 2} :
        Len(trail) > n =>
            LET before == trail[Len(trail) - n].pre
                after == trail[Len(trail)].pre
            IN (/\ LastKeys(n + 1) \in {ks \o <<Pressed("u")>> : ks \in DeletingKeys}
                /\ before.fsm.state = "normal"
                /\ before.box.value = HistList_item(before.box.history)
                /\ after.fsm.state = "normal"
                /\ after.fsm.count = 0
                /\ after.box.value # before.box.value)
               => box.value = before.box.value

\* The keys u and ^R were the last two handled, with no count, from a state
\* whose history pointer is past the oldest snapshot and whose value is the
\* current snapshot.
UndoneThenRedone ==
    /\ Len(trail) >= 2
    /\ LastKeys(2) = <<Pressed("u"), Controlled("^R")>>
    /\ LET before == trail[Len(trail) - 1].pre
       IN /\ before.fsm.state = "normal"
          /\ before.fsm.count = 0
          /\ before.box.history.hl_ptr > 0
          /\ before.box.value = HistList_item(before.box.history)
    /\ trail[Len(trail)].pre.fsm.count = 0

C3_CursorInRange ==
    \A i \in 1..Len(emitted) :
        emitted[i].ev \in {"edit", "type", "replace", "paste", "undo", "redo"}
            => /\ emitted[i].post.box.cursor # NoCursor
               /\ emitted[i].post.box.cursor >= 0
               /\ emitted[i].post.box.cursor <= Len(emitted[i].post.box.value)

\* C4: whenever the FSM is in the normal state after a key was handled, the
\* cursor satisfies cursor.x <= max(value.length - 1, 0).
C4_NormalCursorClamped ==
    (fsm.state = "normal" /\ ~crashed)
        => box.cursor <= Max(Len(box.value) - 1, 0)

\* C5: from construction onward the history holds at least one element and
\* its current element is a snapshot string; right after a reset it holds
\* exactly one snapshot, the empty string.
C5_HistoryHoldsSnapshot ==
    /\ Len(box.history.hl_list) >= 1
    /\ box.history.hl_ptr >= 0
    /\ box.history.hl_ptr < Len(box.history.hl_list)
    /\ HistList_item(box.history) \notin {null, undefined}
    /\ \A i \in 1..Len(emitted) :
           (emitted[i].ev = "submit" /\ ~emitted[i].threw)
               => emitted[i].post.box.history.hl_list = <<<<>>>>

\* The checkpoint_pending flag as event i of the last key found it left by
\* what came before: the previous event of the key, or the key before.
PendingBefore(i) ==
    IF i = 1 THEN trail[Len(trail)].pre.fsm.checkpoint_pending
    ELSE emitted[i - 1].pending

\* C20: on every entry into normal, a set checkpoint_pending flag makes the
\* FSM emit exactly one checkpoint, clear the flag and then emit one clamp;
\* with the flag clear only the clamp is emitted, never a checkpoint.
C20_CheckpointOnceThenClamp ==
    \A i \in 1..Len(emitted) :
        /\ emitted[i].ev = "checkpoint"
               => /\ emitted[i].pending
                  /\ \/ emitted[i].threw
                     \/ /\ i < Len(emitted)
                        /\ emitted[i + 1].ev = "clamp"
        /\ emitted[i].ev = "clamp"
               => /\ ~emitted[i].pending
                  /\ \/ i > 1 /\ emitted[i - 1].ev = "checkpoint"
                     \/ ~PendingBefore(i)

\* A delete followed by the return to normal: the checkpoint saved the new
\* text and the clamp came right after it.
C20_CheckpointedAfterDelete ==
    \E i \in 2..Len(emitted) - 1 :
        /\ emitted[i - 1].ev = "edit"
        /\ emitted[i - 1].a = "delete"
        /\ emitted[i].ev = "checkpoint"
        /\ emitted[i].post.box.history # emitted[i].pre.box.history
        /\ emitted[i + 1].ev = "clamp"
        /\ ~fsm.checkpoint_pending

\* ------------------------------------------------------------------------
\* VISUAL mode.

InitVisual ==
    Booted({<<>>, Typed(<<"a", "b">>), Typed(<<"a", " ", "b", "a">>)})

NextVisual ==
    \/ \E ch \in {"v", "l", "$", "~", "d", "f", "a", "c", "\"", "r"} : Press(ch)
    \/ \E k \in {"^["} : Control(k)
    \/ \E name \in {"left"}, shift \in BOOLEAN : Special(name, shift)

SpecVisual == InitVisual /\ [][NextVisual]_vars

\* The states entered from VISUAL that come back to it: the pending
\* character search, register name and replacement character.
VisualStates == {"visual", "charsearch", "register", "visreplace"}

InitSearch ==
    Booted({Typed(<<"a", "b", "a">>) \o Keys(tail) :
                tail \in {<<"0">>, <<"0", "2">>, <<"0", "g", "~">>, <<>>}})

NextSearch ==
    \/ \E ch \in {"f", "t", "F", "T", ";", "a", "b", "d", "y", "v", "2"} :
           Press(ch)
    \/ \E k \in {"^["} : Control(k)

SpecSearch == InitSearch /\ [][NextSearch]_vars

\* The number of occurrences of ch in value on the given side of index x.
Occurrences(value, x, direction, ch) ==
    Cardinality({i \in 0..(Len(value) - 1) :
                    /\ CharAt(value, i) = ch
                    /\ direction = D_RIGHT => i > x
                    /\ direction = D_LEFT => i < x})

\* An edit whose motion is a character search that cannot be satisfied.
FailedSearch(e) ==
    /\ e.ev = "edit"
    /\ e.a \in {"move", "delete", "yank", "togglecase", "lowercase",
                "uppercase", "highlight"}
    /\ e.mv.movement \in {"to-char", "till-char"}
    /\ e.mv.direction \in {D_LEFT, D_RIGHT}
    /\ \/ e.mv.character = "null"
       \/ Occurrences(e.pre.box.value, e.pre.box.cursor, e.mv.direction,
                      e.mv.character) < e.mv.count

\* C7: when a to-char or till-char motion finds fewer than count occurrences
\* of the character in the search direction, or no search character is
\* remembered, the action it is the operand of (move, delete, yank, case
\* change, highlight) leaves value, cursor and every register unchanged.
C7_FailedSearchChangesNothing ==
    \A i \in 1..Len(emitted) :
        FailedSearch(emitted[i])
            => /\ ~emitted[i].threw
               /\ emitted[i].post.box.value = emitted[i].pre.box.value
               /\ emitted[i].post.box.cursor = emitted[i].pre.box.cursor
               /\ emitted[i].post.regs = emitted[i].pre.regs

\* Witness of C7: a delete to the second "a" right of the cursor was asked
\* for where only one exists.
C7_DeleteToMissingSecondMatch ==
    \E i \in 1..Len(emitted) :
        /\ FailedSearch(emitted[i])
        /\ emitted[i].a = "delete"
        /\ emitted[i].mv.count = 2
        /\ Occurrences(emitted[i].pre.box.value, emitted[i].pre.box.cursor,
                       emitted[i].mv.direction, emitted[i].mv.character) = 1
        /\ box.value = <<"a", "b", "a">>

\* ------------------------------------------------------------------------
\* The to-char motion as a function of value, cursor, character and count.

MaxLen == 4

MotionChars == {"a", "b"}

RECURSIVE Texts(_)
Texts(n) ==
    IF n = 0 THEN {<<>>}
    ELSE Texts(n - 1)
             \cup {Append(t, c) : t \in {u \in Texts(n - 1) : Len(u) = n - 1},
                                  c \in MotionChars}

\* A TextBox holding any short text with the cursor anywhere on it, and a
\* search character and count to resolve.
InitMotion ==
    \E value \in Texts(MaxLen), ch \in MotionChars, count \in 1..MaxCount :
        \E x \in 0..Len(value) :
            /\ fsm = Construct(TRUE).fsm
            /\ box = [Construct(TRUE).box EXCEPT !.value = value, !.cursor = x]
            /\ regs = RegisterManager
            /\ crashed = FALSE
            /\ ndebug = TRUE
            /\ emitted = <<>>
            /\ trail = <<>>
            /\ budget = 0
            /\ probe = [ch |-> ch, count |-> count, resolved |-> FALSE,
                        to |-> NoCursor]
            /\ pane = null
            /\ hist = null
            /\ simple = null
            /\ screen = null
            /\ win = null

\* this._movement({ movement: 'to-char', direction: 'right', ... })
ToChar ==
    /\ ~probe.resolved
    /\ probe' = [probe EXCEPT
                    !.resolved = TRUE,
                    !.to = movement(box, [NoMotion EXCEPT
                                             !.movement = "to-char",
                                             !.direction = D_RIGHT,
                                             !.character = probe.ch,
                                             !.count = probe.count]).nc]
    /\ UNCHANGED <<fsm, box, regs, crashed, ndebug, emitted, trail, budget,
                   pane, hist, simple, win, screen>>

SpecMotion == InitMotion /\ [][ToChar]_vars

\* C8: for every value, cursor, character ch and count >= 1 the rightward
\* to-char motion either resolves to an index i with value[i] = ch such that
\* exactly count - 1 occurrences of ch lie strictly between the cursor and
\* i, or fails; it fails exactly when fewer than count occurrences of ch
\* exist right of the cursor.
C8_ToCharFindsCountthMatch ==
    probe.resolved =>
        /\ (probe.to = NoCursor)
               <=> (Occurrences(box.value, box.cursor, D_RIGHT, probe.ch)
                        < probe.count)
        /\ probe.to # NoCursor =>
               /\ probe.to > box.cursor
               /\ CharAt(box.value, probe.to) = probe.ch
               /\ Cardinality({i \in (box.cursor + 1)..(probe.to - 1) :
                                  CharAt(box.value, i) = probe.ch})
                      = probe.count - 1

\* Witness of C8: the motion resolved to the second match, past a first one
\* and a character that does not match.
C8_ResolvedToSecondMatch ==
    /\ probe.resolved
    /\ probe.count = 2
    /\ probe.to = box.cursor + 3
    /\ CharAt(box.value, box.cursor + 1) # probe.ch

\* ------------------------------------------------------------------------
\* Registers and paste.

\* An empty buffer; "ab"; "ab" after x deleted the "b"; "ab" with a count
\* of 2 typed.
InitPaste ==
    Booted({<<>>} \cup {Typed(<<"a", "b">>) \o Keys(tail) :
                            tail \in {<<>>, <<"x">>, <<"2">>}})

NextPaste ==
    \/ \E ch \in {"p", "P", "\"", "_", "a", "1", "2", "x", "d"} : Press(ch)
    \/ \E k \in {"^["} : Control(k)

SpecPaste == InitPaste /\ [][NextPaste]_vars

\* Nothing was ever stored under the register name reg.
HoldsNothing(r, reg) ==
    CASE reg = "_" -> TRUE
      [] reg = "0" -> r.yanked = null
      [] reg \in DeleteRegisterNames ->
             \/ DigitValue(reg) > Len(r.recent)
             \/ r.recent[DigitValue(reg)] = undefined
      [] OTHER -> reg \notin DOMAIN r.registers

PasteOfNothing(e) ==
    /\ e.ev = "paste"
    /\ e.a \in {"before", "after"}
    /\ HoldsNothing(e.pre.regs, e.reg)

\* C9: a paste (before or after, any count) from a register that holds no
\* value, the blackhole register _ included, emits a warning and leaves
\* value, cursor, history and all registers unchanged.
C9_PasteOfNothingWarns ==
    \A i \in 1..Len(emitted) :
        PasteOfNothing(emitted[i])
            => /\ ~emitted[i].threw
               /\ emitted[i].post = emitted[i].pre
               /\ i < Len(emitted)
               /\ emitted[i + 1].ev = "warn"
               /\ emitted[i + 1].msg = "Nothing in register"
               /\ emitted[i + 1].ch = emitted[i].reg

\* Witness of C9: a paste from the blackhole register while the unnamed
\* register holds deleted text.
C9_PastedFromBlackhole ==
    \E i \in 1..Len(emitted) :
        /\ PasteOfNothing(emitted[i])
        /\ emitted[i].reg = "_"
        /\ ~HoldsNothing(emitted[i].pre.regs, "\"")
        /\ box.value # <<>>

\* ------------------------------------------------------------------------
\* The delete registers, fed by deletes into the unnamed register.

MaxDeletes == 10

DeletedTexts == {<<>>, <<"a">>, <<"b">>}

\* A fresh RegisterManager; probe lists the texts deleted so far, the most
\* recent first.
InitRegisters ==
    /\ fsm = Construct(TRUE).fsm
    /\ box = Construct(TRUE).box
    /\ regs = RegisterManager
    /\ crashed = FALSE
    /\ ndebug = TRUE
    /\ emitted = <<>>
    /\ trail = <<>>
    /\ budget = MaxDeletes
    /\ probe = <<>>
    /\ pane = null
    /\ hist = null
    /\ simple = null
    /\ screen = null
    /\ win = null

\* registers.updateRegister('delete', '"', text), as TextBox.delete does for
\* a delete with no register named.
Deleted(text) ==
    /\ budget > 0
    /\ regs' = updateRegister(regs, "delete", "\"", text)
    /\ probe' = <<text>> \o probe
    /\ budget' = budget - 1
    /\ UNCHANGED <<fsm, box, crashed, ndebug, emitted, trail, pane, hist,
                   simple, win, screen>>

SpecRegisters ==
    InitRegisters /\ [][\E text \in DeletedTexts : Deleted(text)]_vars

DeleteRegisterName(k) == <<"1", "2", "3", "4", "5", "6", "7", "8", "9">>[k]

\* C10: after N <= 9 successive deletes into the unnamed register, reading
\* register k (1 <= k <= N) returns the k-th most recently deleted text, and
\* after more than 9 deletes only the nine most recent remain.
C10_DeleteRegistersReadBack ==
    /\ \A k \in 1..Min(Len(probe), 9) :
           getRegister(regs, DeleteRegisterName(k)) = probe[k]
    /\ Len(regs.recent) <= 9

\* ------------------------------------------------------------------------
\* The RegisterManager called directly: updateRegister as TextBox calls it for
\* a yank or a delete into a named register, and the dedicated setters.

MaxCalls == 2

\* A fresh RegisterManager, one after two unnamed deletes, and one after a yank
\* into register a, an unnamed yank and a command; probe is the last call
\* made and the registers it found.
InitRegisterApi ==
    /\ fsm = Construct(TRUE).fsm
    /\ box = Construct(TRUE).box
    /\ regs \in
           {RegisterManager,
            updateRegister(updateRegister(RegisterManager, "delete", "\"",
                                          <<"p">>),
                           "delete", "\"", <<"q">>),
            updateCommand(updateRegister(updateRegister(RegisterManager,
                                                        "yank", "a", <<"p">>),
                                         "yank", "\"", <<"q">>),
                          <<"s">>)}
    /\ crashed = FALSE
    /\ ndebug = TRUE
    /\ emitted = <<>>
    /\ trail = <<>>
    /\ budget = MaxCalls
    /\ probe = [op |-> "none", action |-> "", reg |-> "", value |-> <<>>,
                pre |-> RegisterManager]
    /\ pane = null
    /\ hist = null
    /\ simple = null
    /\ screen = null
    /\ win = null

\* One call on the RegisterManager: registers.updateRegister(act, reg, value),
\* registers.updateSearch(value) or registers.updateCommand(value).
Called(op, act, reg, value) ==
    /\ budget > 0
    /\ regs' = CASE op = "updateRegister" ->
                        updateRegister(regs, act, reg, value)
                  [] op = "updateSearch" -> updateSearch(regs, value)
                  [] op = "updateCommand" -> updateCommand(regs, value)
    /\ probe' = [op |-> op, action |-> act, reg |-> reg, value |-> value,
                 pre |-> regs]
    /\ budget' = budget - 1
    /\ UNCHANGED <<fsm, box, crashed, ndebug, emitted, trail, pane, hist,
                   simple, win, screen>>

SpecRegisterApi ==
    InitRegisterApi
        /\ [][\E value \in {<<>>, <<"x">>} :
                  \/ \E act \in {"yank", "delete"},
                        reg \in {"0", "1", "2", "9", "a", "A", "^", "\"", "_",
                                 ".", ":", "/", "%", "#", "="} :
                         Called("updateRegister", act, reg, value)
                  \/ Called("updateSearch", "", "", value)
                  \/ Called("updateCommand", "", "", value)]_vars

\* C11: an explicit write of v to a numbered register k in 1..9 is read back
\* by getRegister(k), and every other numbered register reads as before.
C11_NumberedWriteReadsBack ==
    (probe.op = "updateRegister" /\ probe.reg \in DeleteRegisterNames)
        => /\ getRegister(regs, probe.reg) = probe.value
           /\ \A k \in DeleteRegisterNames \ {probe.reg} :
                  getRegister(regs, k) = getRegister(probe.pre, k)

ImmutableRegisterNames == {".", ":", "/", "%", "#", "="}

\* C12: updateRegister with the blackhole register or an immutable register
\* leaves the whole RegisterManager unchanged.
C12_DiscardedWriteChangesNothing ==
    (probe.op = "updateRegister"
         /\ probe.reg \in {"_"} \cup ImmutableRegisterNames)
        => regs = probe.pre

\* A write to the blackhole register found deletes in the ring and another
\* text in the unnamed register.
C12_BlackholeAfterDeletes ==
    /\ probe.op = "updateRegister"
    /\ probe.reg = "_"
    /\ probe.pre.recent # <<>>
    /\ Prop(probe.pre.registers, "\"") \notin {undefined, probe.value}

WritableCall ==
    /\ probe.op = "updateRegister"
    /\ \/ probe.reg \in {"0"} \cup DeleteRegisterNames
                         \cup Range(LowerLetters) \cup Range(UpperLetters)
       \/ probe.reg = "\"" /\ probe.action \in {"yank", "delete"}

\* C13: after updateRegister on a writable register the unnamed register
\* holds exactly the value passed to the call.
C13_UnnamedHoldsLastWrite ==
    WritableCall => getRegister(regs, "\"") = probe.value

\* An append to register a through A: the unnamed register holds the value
\* passed, not the longer content of register a.
C13_UnnamedAfterAppend ==
    /\ WritableCall
    /\ probe.reg = "A"
    /\ probe.value # <<>>
    /\ getRegister(probe.pre, "a") \notin {null, <<>>}
    /\ getRegister(regs, "a") # probe.value

\* C14: a write to a lowercase name replaces the register; a write to an
\* uppercase name appends to the lowercase register (or sets it if unset)
\* and changes no other named register; a name outside A-Z appends nowhere.
C14_AppendOnlyThroughUppercase ==
    probe.op = "updateRegister"
        => LET was(name) == Prop(probe.pre.registers, name)
               is(name) == Prop(regs.registers, name)
               others(names) ==
                   \A name \in (DOMAIN regs.registers
                                    \cup DOMAIN probe.pre.registers)
                                   \ (names \cup {"\"", "-"}) :
                       is(name) = was(name)
           IN CASE probe.reg \in Range(LowerLetters) ->
                       is(probe.reg) = probe.value /\ others({probe.reg})
                [] probe.reg \in Range(UpperLetters) ->
                       /\ is(toLowerChar(probe.reg)) =
                              IF was(toLowerChar(probe.reg)) = undefined
                              THEN probe.value
                              ELSE was(toLowerChar(probe.reg)) \o probe.value
                       /\ others({toLowerChar(probe.reg)})
                [] OTHER -> others({})

\* C15: updateSearch(v) stores v in the / register and leaves the : register
\* unchanged.
C15_SearchSetterWritesSlash ==
    probe.op = "updateSearch"
        => /\ getRegister(regs, "/") = probe.value
           /\ getRegister(regs, ":") = getRegister(probe.pre, ":")

\* ------------------------------------------------------------------------
\* A HistList on its own: new HistList({ maxSize: HistMax }) followed by the
\* first append, as TextBox.reset and the Pane constructor do, then any calls
\* of append, next and prev.

HistMax == 3

\* probe is the last call: its argument, the list it found, what it returned
\* and whether one of its assertions threw.
InitHistList ==
    \E nd \in BOOLEAN, item \in {<<>>, <<"a">>, <<"b">>} :
        /\ ~assertFails(nd, item)
        /\ fsm = Construct(TRUE).fsm
        /\ box = Construct(TRUE).box
        /\ regs = RegisterManager
        /\ crashed = FALSE
        /\ ndebug = nd
        /\ emitted = <<>>
        /\ trail = <<>>
        /\ budget = 0
        /\ probe = [op |-> "append", arg |-> item, pre |-> HistList(HistMax),
                    ret |-> undefined, threw |-> FALSE]
        /\ pane = null
        /\ hist = HistList_append(HistList(HistMax), item)
        /\ simple = null
        /\ screen = null
        /\ win = null

\* hist.append(arg), hist.next(arg) or hist.prev(arg).  append asserts its
\* item before it touches the list; next and prev assert the item they are
\* about to return, after the pointer has moved.
HistCalled(op, arg) ==
    /\ ~crashed
    /\ LET called(h, threw) ==
               /\ hist' = h
               /\ crashed' = threw
               /\ probe' = [op |-> op, arg |-> arg, pre |-> hist,
                            ret |-> IF op = "append" \/ threw THEN undefined
                                    ELSE HistList_item(h),
                            threw |-> threw]
           moved(h) == called(h, assertFails(ndebug, HistList_item(h)))
       IN CASE op = "append" ->
                   IF assertFails(ndebug, arg) THEN called(hist, TRUE)
                   ELSE called(HistList_append(hist, arg), FALSE)
            [] op = "next" -> moved(HistList_next(hist, arg))
            [] op = "prev" -> moved(HistList_prev(hist, arg))
    /\ UNCHANGED <<fsm, box, regs, ndebug, emitted, trail, budget, pane,
                   simple, win, screen>>

SpecHistList ==
    InitHistList
        /\ [][\/ \E item \in {<<>>, <<"a">>, <<"b">>} :
                     HistCalled("append", item)
              \/ \E count \in 0..HistMax : HistCalled("next", count)
              \/ \E count \in 0..HistMax : HistCalled("prev", count)]_vars

\* An append that returned, called with the pointer before the last element.
AppendedInside ==
    /\ probe.op = "append"
    /\ ~probe.threw
    /\ probe.pre.hl_ptr >= 0
    /\ probe.pre.hl_ptr < Len(probe.pre.hl_list) - 1

\* C17: with ptr < len-1, append(x) discards every element after ptr, stores
\* x right after the old ptr and leaves len = old ptr + 2, ptr = old ptr + 1,
\* the elements at indices 0..old ptr unchanged.
C17_AppendTruncatesAfterPointer ==
    AppendedInside
        => /\ Len(hist.hl_list) = probe.pre.hl_ptr + 2
           /\ hist.hl_ptr = probe.pre.hl_ptr + 1
           /\ hist.hl_list[hist.hl_ptr + 1] = probe.arg
           /\ SubSeq(hist.hl_list, 1, probe.pre.hl_ptr + 1) =
                  SubSeq(probe.pre.hl_list, 1, probe.pre.hl_ptr + 1)

\* An append at the first of three elements: two elements were discarded.
C17_AppendedAfterTwoUndone ==
    /\ AppendedInside
    /\ probe.pre.hl_ptr = 0
    /\ Len(probe.pre.hl_list) = 3
    /\ probe.pre.hl_list[2] # probe.arg

\* What C18 says of an append: the oldest element is gone, the length is
\* max_size and ptr is the last index, whose element is the appended one.
DroppedOldest ==
    /\ Len(hist.hl_list) = hist.hl_maxSize
    /\ hist.hl_ptr = hist.hl_maxSize - 1
    /\ hist.hl_list[hist.hl_maxSize] = probe.arg
    /\ SubSeq(hist.hl_list, 1, hist.hl_maxSize - 1) = Tail(probe.pre.hl_list)

\* C18 (as amended): when a HistList holds max_size elements and ptr is at
\* the last of them, append(v) drops the oldest element, keeps the length at
\* max_size and leaves ptr at the last index, whose element is v.
C18_AppendAtCapacityDropsOldest ==
    (probe.op = "append" /\ ~probe.threw
         /\ Len(probe.pre.hl_list) = probe.pre.hl_maxSize
         /\ probe.pre.hl_ptr = probe.pre.hl_maxSize - 1)
        => DroppedOldest

\* An append to a full list of distinct neighbours, with ptr at the end.
C18_AppendedToFullList ==
    /\ probe.op = "append"
    /\ ~probe.threw
    /\ Len(probe.pre.hl_list) = probe.pre.hl_maxSize
    /\ probe.pre.hl_ptr = probe.pre.hl_maxSize - 1
    /\ probe.pre.hl_list[1] # probe.pre.hl_list[2]
    /\ hist.hl_list[1] = probe.pre.hl_list[2]

\* C18 (as stated): whenever a HistList holds max_size elements, append(v)
\* drops the oldest element, wherever ptr is.
C18_AppendToFullDropsOldest ==
    (probe.op = "append" /\ ~probe.threw
         /\ Len(probe.pre.hl_list) = probe.pre.hl_maxSize)
        => DroppedOldest

\* C19: after the first append, 0 <= ptr <= len-1 and len <= max_size;
\* next(k) sets ptr to min(ptr+k, len-1), prev(k) sets it to max(ptr-k, 0),
\* and both return the element at the new ptr without changing the list.
C19_PointerSaturates ==
    /\ hist.hl_ptr >= 0
    /\ hist.hl_ptr <= Len(hist.hl_list) - 1
    /\ Len(hist.hl_list) <= hist.hl_maxSize
    /\ probe.op \in {"next", "prev"}
           => /\ ~probe.threw
              /\ hist.hl_list = probe.pre.hl_list
              /\ probe.ret = hist.hl_list[hist.hl_ptr + 1]
              /\ hist.hl_ptr =
                     IF probe.op = "next"
                     THEN Min(probe.pre.hl_ptr + probe.arg,
                              Len(probe.pre.hl_list) - 1)
                     ELSE Max(probe.pre.hl_ptr - probe.arg, 0)

\* next(2) from the middle of three elements stopped at the last one.
C19_NextStoppedAtEnd ==
    /\ probe.op = "next"
    /\ probe.arg = 2
    /\ probe.pre.hl_ptr = 1
    /\ Len(hist.hl_list) = 3
    /\ hist.hl_ptr = 2

\* ------------------------------------------------------------------------
\* A Pane and the views it shows.  A view is known by the short name of its
\* room; the window's first pane starts on the lobby.

MaxFocus == 4

\* new Pane({ initial: lobby view }): the jump list gets the initial view and
\* the registers its name.  probe is the last operation and the name of the
\* view that was current before it.
InitPane ==
    /\ fsm = Construct(TRUE).fsm
    /\ box = Construct(TRUE).box
    /\ regs = updateCurrentBufferName(RegisterManager, <<"Lobby">>)
    /\ crashed = FALSE
    /\ ndebug \in BOOLEAN
    /\ emitted = <<>>
    /\ trail = <<>>
    /\ budget = MaxFocus
    /\ probe = [op |-> "new", old |-> null]
    /\ pane = [jumplist |->
                   HistList_append(HistList(HL_DEF_MAX_SIZE), <<"Lobby">>),
               wrapped |-> <<"Lobby">>]
    /\ hist = null
    /\ simple = null
    /\ screen = null
    /\ win = null

\* pane.focusView(view): append to the jump list, then setView;
\* pane.focusHistory(direction, count): step the jump list, then setView.
\* setView passes the view's short name to updateCurrentBufferName and wraps
\* the view.
Focused(op, view, direction, count) ==
    /\ budget > 0
    /\ LET setView(jumplist) ==
               /\ pane' = [jumplist |-> jumplist,
                           wrapped |-> HistList_item(jumplist)]
               /\ regs' = updateCurrentBufferName(regs,
                                                  HistList_item(jumplist))
       IN CASE op = "focusView" ->
                   setView(HistList_append(pane.jumplist, view))
            [] op = "focusHistory" /\ direction = "previous" ->
                   setView(HistList_prev(pane.jumplist, count))
            [] op = "focusHistory" /\ direction = "next" ->
                   setView(HistList_next(pane.jumplist, count))
    /\ probe' = [op |-> op, old |-> pane.wrapped]
    /\ budget' = budget - 1
    /\ UNCHANGED <<fsm, box, crashed, ndebug, emitted, trail, hist, simple,
                   win, screen>>

SpecPane ==
    InitPane
        /\ [][\/ \E view \in {<<"Lobby">>, <<"a">>, <<"b">>} :
                     Focused("focusView", view, "", 0)
              \/ \E direction \in {"previous", "next"}, count \in 1..2 :
                     Focused("focusHistory", null, direction, count)]_vars

\* C16: whenever the Pane's current view changes (creation, focusView,
\* focusHistory), register % holds the short name of the new current view
\* and register # the short name of the view that was current before.
C16_BufferNameRegisters ==
    /\ getRegister(regs, "%") = pane.wrapped
    /\ probe.op # "new" => getRegister(regs, "#") = probe.old

\* ------------------------------------------------------------------------
\* Register selection and counts.

\* The buffer ab, as typed, after "a selected register a, or with a count of
\* 2 pending.
InitSelect ==
    Booted({Typed(<<"a", "b">>),
            Typed(<<"a", "b">>) \o Keys(<<"\"", "a">>),
            Typed(<<"a", "b">>) \o Keys(<<"2">>)})

SpecSelect ==
    InitSelect
        /\ [][\/ \E ch \in {"\"", "a", "b", "i", "x", "p", "y", "l", "r", "0",
                             "1", "2"} : Press(ch)
              \/ \E k \in {"^[", "^H", "^R"} : Control(k)
              \/ \E name \in {"left", "delete"} : Special(name, FALSE)]_vars

\* The events that carry a register: edit and replace in their motion, paste
\* as an argument.
CarriedRegister(e) == IF e.ev = "paste" THEN e.reg ELSE e.mv.register

\* C21: a register selected with "<r> is consumed by the next edit, paste or
\* replace the FSM emits: that event carries it, and after each such event
\* the FSM's selected register is null.
C21_RegisterConsumedByNextAction ==
    \A i \in 1..Len(emitted) :
        emitted[i].ev \in {"edit", "paste", "replace"}
            => /\ fsm.register = "null"
               /\ \/ trail[Len(trail)].pre.fsm.register = "null"
                  \/ \E j \in 1..i :
                         /\ emitted[j].ev \in {"edit", "paste", "replace"}
                         /\ CarriedRegister(emitted[j]) =
                                trail[Len(trail)].pre.fsm.register

\* ------------------------------------------------------------------------
\* Leaving a state with ^[.

\* The buffer ab in NORMAL; the keys below reach every state of the FSM.
InitEscape == Booted({Typed(<<"a", "b">>)})

SpecEscape ==
    InitEscape
        /\ [][\/ \E ch \in {"i", "R", "v", "d", "g", "f", "m", "'", "backtick",
                             "\"", "r"} : Press(ch)
              \/ \E k \in {"^[", "^W", "^R"} : Control(k)]_vars

\* The last key delivered was ^[.
Escaped ==
    /\ trail # <<>>
    /\ trail[Len(trail)].key = Controlled("^[")

\* C22 (as amended): ^[ leaves the FSM in normal, except that the paste
\* state returns to insert, the visreplace state to visual and the register
\* state to the state it was entered from (normal or visual).
C22_EscapeLeavesPendingState ==
    Escaped
        => LET was == trail[Len(trail)].pre.fsm
           IN /\ ~crashed
              /\ fsm.state =
                     CASE was.state = "paste" -> "insert"
                       [] was.state = "visreplace" -> "visual"
                       [] was.state = "register" -> was.movement_poststate
                       [] OTHER -> "normal"

\* ^[ was pressed while VISUAL waited for a replacement character.
C22_EscapedFromVisreplace ==
    /\ Escaped
    /\ trail[Len(trail)].pre.fsm.state = "visreplace"
    /\ fsm.state = "visual"

\* C22 (as stated): in every state, ^[ leaves the FSM in the normal state.
C22_EscapeAlwaysToNormal ==
    Escaped => fsm.state = "normal"

\* ------------------------------------------------------------------------
\* Operators and the motions that complete them.

\* The buffer "a ba" with the cursor at its end or at its start.
InitOperator ==
    Booted({Typed(<<"a", " ", "b", "a">>),
            Typed(<<"a", " ", "b", "a">>) \o Keys(<<"0">>)})

SpecOperator ==
    InitOperator
        /\ [][\/ \E ch \in {"y", "d", "c", "h", "l", "w", "b", "e", "$", "^",
                             "0", "2", "f", "a"} : Press(ch)
              \/ \E k \in {"^[", "^H"} : Control(k)
              \/ \E name \in {"right", "end"} : Special(name, FALSE)]_vars

\* The operators of NORMAL mode: the action each one leaves pending and the
\* state it ends in.
OperatorAction(ch) == IF ch = "y" THEN "yank" ELSE "delete"
OperatorPoststate(ch) == IF ch = "c" THEN "insert" ELSE "normal"

\* The motion each motion key stands for: movement and direction.
MotionOfKey(k) ==
    CASE k = Pressed("h") -> <<"char", "left">>
      [] k = Pressed("l") -> <<"char", "right">>
      [] k = Pressed("w") -> <<"word-begin", "right">>
      [] k = Pressed("b") -> <<"word-begin", "left">>
      [] k = Pressed("e") -> <<"word-end", "right">>
      [] k = Pressed("$") -> <<"line", "right">>
      [] k = Pressed("^") -> <<"line", "first-word">>
      [] k = Pressed("0") -> <<"line", "left">>
      [] k = Controlled("^H") -> <<"char", "left">>
      [] k = Specialed("right", FALSE) -> <<"char", "right">>
      [] k = Specialed("end", FALSE) -> <<"line", "right">>
      [] OTHER -> <<"none", "none">>

\* The key emitted exactly one event: the edit act over the given motion.
EmittedOnly(act, mvmt, direction) ==
    /\ Len(SelectSeq(emitted, LAMBDA e : e.ev \notin {"checkpoint", "clamp"}))
           = 1
    /\ emitted[1].ev = "edit"
    /\ emitted[1].a = act
    /\ emitted[1].mv.movement = mvmt
    /\ emitted[1].mv.direction = direction

\* C23: in normal, y d c enter movement with pending action yank, delete,
\* delete and post-state normal, normal, insert; in movement the same letter
\* again emits that action over the line movement in direction down, and a
\* resolved motion key emits the pending action with that motion; the FSM is
\* then in the post-state.
C23_OperatorThenMotion ==
    trail # <<>>
        => LET key == trail[Len(trail)].key
               was == trail[Len(trail)].pre.fsm
               pending ==
                   /\ was.state = "movement"
                   /\ was.movement_actchar \in {"y", "d", "c"}
           IN /\ (was.state = "normal" /\ key \in Range(Keys(<<"y", "d", "c">>)))
                     => /\ fsm.state = "movement"
                        /\ fsm.movement_action = OperatorAction(key.name)
                        /\ fsm.movement_poststate = OperatorPoststate(key.name)
                        /\ emitted = <<>>
              /\ (pending /\ key = Pressed(was.movement_actchar))
                     => /\ EmittedOnly(OperatorAction(key.name), "line", "down")
                        /\ fsm.state = OperatorPoststate(key.name)
              /\ (pending /\ MotionOfKey(key)[1] # "none"
                          /\ (key = Pressed("0") => was.count = 0))
                     => /\ EmittedOnly(OperatorAction(was.movement_actchar),
                                       MotionOfKey(key)[1], MotionOfKey(key)[2])
                        /\ fsm.state = OperatorPoststate(was.movement_actchar)
              /\ (was.state = "charsearch" /\ key.kind = "press"
                          /\ was.movement_action # "move"
                          /\ was.movement_actchar \in {"y", "d", "c"})
                     => /\ EmittedOnly(OperatorAction(was.movement_actchar),
                                       was.charsearch_operation,
                                       was.charsearch_direction)
                        /\ emitted[1].mv.character = key.name
                        /\ fsm.state = OperatorPoststate(was.movement_actchar)

\* c w: the change operator completed by a word motion ends in insert.
C23_ChangedWord ==
    /\ Len(trail) >= 2
    /\ LastKeys(2) = Keys(<<"c", "w">>)
    /\ trail[Len(trail) - 1].pre.fsm.state = "normal"
    /\ fsm.state = "insert"
    /\ emitted[1].a = "delete"
    /\ emitted[1].post.box.value # emitted[1].pre.box.value

\* ------------------------------------------------------------------------
\* The operators of VISUAL mode.

\* VISUAL entered at the end of ab, and at the start of "a ba" with one
\* character more highlighted.
InitVisualOps ==
    Booted({Typed(<<"a", "b">>) \o Keys(<<"v">>),
            Typed(<<"a", " ", "b", "a">>) \o Keys(<<"0", "v", "l">>)})

SpecVisualOps ==
    InitVisualOps
        /\ [][\/ \E ch \in {"d", "x", "y", "~", "u", "U", "c", "l", "h", "v"} :
                     Press(ch)
              \/ \E k \in {"^["} : Control(k)]_vars

\* The action each operator key of VISUAL mode stands for.
VisualAction(ch) ==
    CASE ch \in {"d", "x", "c"} -> "delete"
      [] ch = "y" -> "yank"
      [] ch = "~" -> "togglecase"
      [] ch = "u" -> "lowercase"
      [] ch = "U" -> "uppercase"

\* C24: in visual each of d x y ~ u U emits its action (delete, delete,
\* yank, togglecase, lowercase, uppercase) over the highlight movement and
\* the FSM ends in normal; c emits delete over the highlight and the FSM
\* ends in insert.
C24_VisualOperators ==
    (/\ trail # <<>>
     /\ trail[Len(trail)].pre.fsm.state = "visual"
     /\ trail[Len(trail)].key \in
            Range(Keys(<<"d", "x", "y", "~", "u", "U", "c">>)))
        => /\ emitted # <<>>
           /\ emitted[1].ev = "edit"
           /\ emitted[1].a = VisualAction(trail[Len(trail)].key.name)
           /\ emitted[1].mv.movement = "highlight"
           /\ ~crashed
           /\ fsm.state = IF trail[Len(trail)].key.name = "c"
                          THEN "insert" ELSE "normal"

\* ------------------------------------------------------------------------
\* Counts.

\* The buffer "a ba" in NORMAL with the cursor on its last character or at
\* its start; digits, the keys that consume a count and the keys I, A, a
\* that start an insertion.
InitCount ==
    Booted({Typed(<<"a", " ", "b", "a">>),
            Typed(<<"a", " ", "b", "a">>) \o Keys(<<"0">>)})

SpecCount ==
    InitCount
        /\ [][\/ \E ch \in {"0", "1", "2", "x", "l", "h", "d", "v", "a", "A",
                             "I", "i", "p"} : Press(ch)
              \/ \E k \in {"^[", "^H"} : Control(k)
              \/ \E name \in {"delete", "home"} : Special(name, FALSE)]_vars

\* The states whose key handler reads a count.
CountingStates == {"normal", "movement", "visual"}

\* The count an event carries: edit and replace in their motion, paste as an
\* argument.
CarriedCount(e) == IF e.ev = "paste" THEN e.n ELSE e.mv.count

\* C25: in the states that read a count, a digit 1-9 appends itself to the
\* count, 0 appends itself when the count is not 0 and otherwise emits the
\* motion to the start of the line; the action a key emits carries the count
\* typed before it (1 when none was typed) and leaves the count 0; the count
\* is 0 whenever NORMAL has been entered.
C25_CountTypedAndConsumed ==
    trail # <<>>
        => LET was == trail[Len(trail)].pre.fsm
               key == trail[Len(trail)].key
               digit == key.kind = "press" /\ key.name \in Digits
                            /\ was.state \in CountingStates
               acts == {i \in 1..Len(emitted) :
                            emitted[i].ev \in {"edit", "paste", "replace"}}
           IN /\ digit /\ key.name # "0"
                    => /\ fsm.count = was.count * 10 + DigitValue(key.name)
                       /\ acts = {}
              /\ digit /\ key.name = "0" /\ was.count # 0
                    => /\ fsm.count = was.count * 10
                       /\ acts = {}
              /\ digit /\ key.name = "0" /\ was.count = 0
                    => \E i \in acts :
                           /\ emitted[i].mv.movement = "line"
                           /\ emitted[i].mv.direction = D_LEFT
              /\ acts # {}
                    => /\ fsm.count = 0
                       /\ LET first == emitted[CHOOSE i \in acts :
                                                  \A j \in acts : i <= j]
                          IN CarriedCount(first) =
                                 IF was.count > 0 THEN was.count ELSE 1
              /\ (\E i \in 1..Len(emitted) : emitted[i].ev = "clamp")
                    => fsm.count = 0

\* ------------------------------------------------------------------------
\* SimpleChatFSM, the keybindings without modes.

\* new SimpleChatFSM(): the FSM starts in waiting.
SimpleChatFSM == [state |-> "waiting"]

simple_action_flipped(act, mvmt, direction, ch) ==
    Emit([Event("edit") EXCEPT
              !.a = act,
              !.mv = [Motion(mvmt, flipDirection(direction), 1, "_")
                          EXCEPT !.character = ch]])

\* SimpleChatFSM.prototype.action: an edit with count 1 and register _.
simple_action(act, mvmt, direction, ch) ==
    Emit([Event("edit") EXCEPT
              !.a = act,
              !.mv = [Motion(mvmt, direction, 1, "_") EXCEPT !.character = ch]])

\* The handlers of state_waiting: the statements run and the state the FSM is
\* in afterwards.
simple_waiting(key) ==
    LET stay(prog) == [prog |-> prog, to |-> "waiting"]
        controlAsserted(k) ==
            CASE k \in {"^C", "^["} -> stay(<<Emit(Event("switch"))>>)
              [] k = "^Z" -> stay(<<Emit(Event("suspend"))>>)
              [] k = "^L" -> stay(<<Emit(Event("refresh"))>>)
              [] k = "^D" -> stay(<<>>)
              [] k = "^R" -> [prog |-> <<>>, to |-> "paste"]
              [] k \in {"^?", "^H"} ->
                     stay(<<simple_action("delete", "char", D_LEFT,
                                          "undefined")>>)
              [] k = "^U" ->
                     stay(<<simple_action("delete", "line", D_DOWN,
                                          "undefined")>>)
              [] k \in {"^J", "^M"} -> stay(<<Emit(Event("submit"))>>)
              [] k = "^I" ->
                     stay(<<Emit([Event("complete") EXCEPT !.a = "next"])>>)
              [] k = "^A" ->
                     stay(<<simple_action("move", "line", D_LEFT,
                                          "undefined")>>)
              [] k = "^E" ->
                     stay(<<simple_action("move", "line", D_RIGHT,
                                          "undefined")>>)
              [] OTHER -> stay(<<>>)
        specialAsserted(name, shift) ==
            CASE name = "prior" ->
                     stay(<<Emit([Event("scroll") EXCEPT !.a = D_UP])>>)
              [] name = "next" ->
                     stay(<<Emit([Event("scroll") EXCEPT !.a = D_DOWN])>>)
              [] name = "end" ->
                     stay(<<simple_action("move", "line", D_RIGHT,
                                          "undefined")>>)
              [] name = "home" ->
                     stay(<<simple_action("move", "line", D_LEFT,
                                          "undefined")>>)
              [] name = "delete" ->
                     stay(<<simple_action("delete", "char", D_RIGHT,
                                          "undefined")>>)
              [] name = "left" ->
                     stay(<<IF shift
                            THEN simple_action("move", "word-begin", D_LEFT,
                                               "undefined")
                            ELSE simple_action("move", "char", D_LEFT,
                                               "undefined")>>)
              [] name = "right" ->
                     stay(<<IF shift
                            THEN simple_action("move", "to-char", D_RIGHT, " ")
                            ELSE simple_action("move", "char", D_RIGHT,
                                               "undefined")>>)
              [] name = "reverse-tab" ->
                     stay(<<Emit([Event("complete") EXCEPT
                                      !.a = "previous"])>>)
              [] OTHER -> stay(<<>>)
        pressAsserted(ch) == stay(<<Emit([Event("type") EXCEPT !.ch = ch])>>)
    IN CASE key.kind = "control" -> controlAsserted(key.name)
         [] key.kind = "special" -> specialAsserted(key.name, key.shift)
         [] key.kind = "press" -> pressAsserted(key.name)

\* The handlers of state_paste: every key returns to waiting, a register
\* name pastes that register first.
simple_paste(key) ==
    [prog |-> IF key.kind = "press" /\ REGISTER_REGEX(key.name)
              THEN <<Emit([Event("paste") EXCEPT !.a = "before",
                                                 !.reg = key.name, !.n = 1])>>
              ELSE <<>>,
     to |-> "waiting"]

\* press, special or control on a SimpleChatFSM in state s, with the TextBox
\* of w listening to what it emits.
simple_deliver(w, s, key) ==
    LET h == IF s.state = "waiting" THEN simple_waiting(key)
             ELSE simple_paste(key)
    IN [w |-> exec([w EXCEPT !.emitted = <<>>], h.prog),
        s |-> [state |-> h.to]]

RECURSIVE simple_run(_, _, _)
simple_run(w, s, ks) ==
    IF ks = <<>> THEN [w |-> w, s |-> s]
    ELSE LET r == simple_deliver(w, s, Head(ks))
         IN simple_run(r.w, r.s, Tail(ks))

\* A TextBox driven by a new SimpleChatFSM, empty or after ab was typed and
\* the cursor moved left once or twice.
InitSimple ==
    \E script \in {<<>>, Keys(<<"a", "b">>),
                   Keys(<<"a", "b">>) \o <<Specialed("left", FALSE)>>,
                   Keys(<<"a", "b">>) \o <<Specialed("left", FALSE),
                                           Specialed("left", FALSE)>>} :
        /\ LET started(r) ==
                   /\ fsm = r.w.fsm
                   /\ box = r.w.box
                   /\ regs = r.w.regs
                   /\ crashed = r.w.crashed
                   /\ simple = r.s
           IN started(simple_run(Construct(TRUE), SimpleChatFSM, script))
        /\ ndebug = TRUE
        /\ emitted = <<>>
        /\ trail = <<>>
        /\ budget = MaxKeys
        /\ probe = SimpleChatFSM
        /\ pane = null
        /\ hist = null
        /\ win = null
        /\ screen = null

\* One key is delivered to the SimpleChatFSM; probe keeps the FSM as the key
\* found it.
SimpleKey(k) ==
    /\ budget > 0
    /\ LET handled(r) ==
               /\ box' = r.w.box
               /\ regs' = r.w.regs
               /\ crashed' = r.w.crashed
               /\ emitted' = r.w.emitted
               /\ simple' = r.s
       IN handled(simple_deliver([fsm |-> fsm, box |-> box, regs |-> regs,
                                  crashed |-> crashed, ndebug |-> ndebug,
                                  emitted |-> <<>>], simple, k))
    /\ trail' = LET t == Append(trail, [key |-> k,
                                        pre |-> [fsm |-> fsm, box |-> box,
                                                 regs |-> regs]])
                IN IF Len(t) > TrailLen THEN Tail(t) ELSE t
    /\ probe' = simple
    /\ budget' = budget - 1
    /\ UNCHANGED <<fsm, ndebug, pane, hist, win, screen>>

SpecSimple ==
    InitSimple
        /\ [][\/ \E ch \in {"a", "\""} : SimpleKey(Pressed(ch))
              \/ \E k \in {"^H", "^?", "^R", "^U"} : SimpleKey(Controlled(k))
              \/ \E name \in {"delete", "left", "right"}, shift \in BOOLEAN :
                     SimpleKey(Specialed(name, shift))]_vars

\* The last key found the FSM in waiting and was the control key k.
WaitingGot(k) ==
    /\ trail # <<>>
    /\ trail[Len(trail)].key = Controlled(k)
    /\ probe.state = "waiting"

\* The last key emitted one event only: the deletion of one character in the
\* given direction.
DeletedOneChar(direction) ==
    /\ Len(emitted) = 1
    /\ emitted[1].ev = "edit"
    /\ emitted[1].a = "delete"
    /\ emitted[1].mv.movement = "char"
    /\ emitted[1].mv.direction = direction
    /\ emitted[1].mv.count = 1

\* C26 (as stated): in waiting, ^H emits the deletion of one character to the
\* left of the cursor and ^? the deletion of one character to its right; the
\* FSM stays in waiting.
C26_BackspaceLeftDeleteRight ==
    /\ WaitingGot("^H") => DeletedOneChar(D_LEFT) /\ simple.state = "waiting"
    /\ WaitingGot("^?") => DeletedOneChar(D_RIGHT) /\ simple.state = "waiting"

\* The last key was the special key Delete, found in waiting.
WaitingGotDelete ==
    /\ trail # <<>>
    /\ trail[Len(trail)].key.kind = "special"
    /\ trail[Len(trail)].key.name = "delete"
    /\ probe.state = "waiting"

\* C26 (as amended): in waiting, ^H and ^? both emit the deletion of one
\* character to the left of the cursor, and the special key Delete emits the
\* deletion of one character to its right; the FSM stays in waiting, and the
\* TextBox loses that character when there is one.
C26_BackspaceKeysLeftDeleteKeyRight ==
    LET was == trail[Len(trail)].pre.box
        left == SubSeq(was.value, 1, was.cursor)
        right == SubSeq(was.value, was.cursor + 1, Len(was.value))
        front(t) == SubSeq(t, 1, Len(t) - 1)
    IN /\ WaitingGot("^H") \/ WaitingGot("^?")
             => /\ DeletedOneChar(D_LEFT)
                /\ simple.state = "waiting"
                /\ box.value = (IF left = <<>> THEN left ELSE front(left))
                                   \o right
       /\ WaitingGotDelete
             => /\ DeletedOneChar(D_RIGHT)
                /\ simple.state = "waiting"
                /\ box.value = left \o (IF right = <<>> THEN right
                                        ELSE Tail(right))

\* ^? was pressed in waiting with the cursor between a and b: a is gone.
C26_DelErasedLeft ==
    /\ WaitingGot("^?")
    /\ trail[Len(trail)].pre.box.value = <<"a", "b">>
    /\ trail[Len(trail)].pre.box.cursor = 1
    /\ box.value = <<"b">>

\* ------------------------------------------------------------------------
\* Window: the list of panes, splits, rotation, resizing and quitting.

MIN_VIEW_HEIGHT == 4

\* A pane's height is a number of rows, null or undefined; the last two are
\* written as negative numbers, and 0 is the number 0.
NullHeight == 0 - 1
UndefinedHeight == 0 - 2

\* if (height): a number other than 0, and neither null nor undefined.
truthy(height) == height > 0 \/ height < UndefinedHeight

\* new Window(opts) in a region of the given height: one pane (object 1)
\* without fixed sizes, index 0, and state_tile lays the frame out.  clones
\* gives for each Pane object the object it was cloned from (0: none).
NewWindow(height) ==
    [state |-> "tile", panes |-> <<[pane |-> 1, height |-> NullHeight,
                                    width |-> NullHeight]>>,
     index |-> 0, pane |-> 1, wrapped |-> "frame", height |-> height,
     clones |-> <<0>>, warned |-> <<>>, threw |-> FALSE, exited |-> FALSE]

\* reflow(): nothing when zoomed; otherwise the frame gets the panes and
\* this.pane (the pane that has the focus) becomes panes[index].pane.
Window_reflow(W) ==
    IF W.state = "zoom" THEN W
    ELSE [W EXCEPT !.wrapped = "frame", !.pane = W.panes[W.index + 1].pane]

Window_setIndex(W, index) ==
    IF W.index = index THEN W
    ELSE [W EXCEPT !.index = index, !.pane = W.panes[index + 1].pane]

\* _focus(direction, count)
Window_updateFocus(W, direction, count) ==
    LET n == Len(W.panes)
        go(index) == Window_setIndex(W, index)
    IN CASE direction = "next" ->
                IF count = 0
                THEN go(IF W.index + 1 = n THEN 0 ELSE W.index + 1)
                ELSE go(Min(count, n) - 1)
         [] direction = "top" -> go(0)
         [] direction = "previous" ->
                IF count = 0
                THEN go(IF W.index - 1 <= 0 - 1 THEN n - 1 ELSE W.index - 1)
                ELSE go(Min(count, n) - 1)
         [] direction = "bottom" -> go(n - 1)
         [] direction = D_LEFT -> go(W.index)
         [] direction = D_DOWN -> go(Min(W.index + count, n - 1))
         [] direction = D_UP -> go(Max(W.index - count, 0))
         [] direction = D_RIGHT -> go(W.index)
         [] OTHER -> [W EXCEPT !.threw = TRUE]

Window_focus_staysZoomed(W, direction, count) ==
    IF W.state = "tile"
    THEN IF direction = "zoom"
         THEN [W EXCEPT !.state = "zoom", !.wrapped = "pane"]
         ELSE Window_updateFocus(W, direction, count)
    ELSE IF direction # "zoom"
         THEN Window_updateFocus(W, direction, count)
         ELSE Window_reflow([W EXCEPT !.state = "tile"])

\* focus(direction, count): the focusAsserted handler of the current state.
\* Entering zoom wraps this.pane; entering tile reflows.
Window_focus(W, direction, count) ==
    IF W.state = "tile"
    THEN IF direction = "zoom"
         THEN [W EXCEPT !.state = "zoom", !.wrapped = "pane"]
         ELSE Window_updateFocus(W, direction, count)
    ELSE LET W1 == IF direction # "zoom"
                   THEN Window_updateFocus(W, direction, count)
                   ELSE W
         IN IF W1.threw THEN W1
            ELSE Window_reflow([W1 EXCEPT !.state = "tile"])

Window_insert(W, clone, height, width) ==
    Window_reflow(
        [W EXCEPT !.panes = SubSeq(@, 1, W.index)
                                \o <<[pane |-> clone, height |-> height,
                                      width |-> width]>>
                                \o SubSeq(@, W.index + 1, Len(@))])

Window_remove_first(W) ==
    LET panes == Tail(W.panes)
    IN Window_reflow(
           [W EXCEPT !.panes = panes,
                     !.index = IF W.index = Len(panes) THEN W.index - 1
                               ELSE W.index])

\* _remove()
Window_remove(W) ==
    LET panes == SubSeq(W.panes, 1, W.index)
                     \o SubSeq(W.panes, W.index + 2, Len(W.panes))
    IN Window_reflow(
           [W EXCEPT !.panes = panes,
                     !.index = IF W.index = Len(panes) THEN W.index - 1
                               ELSE W.index])

Window_hsplit_refusesAtThreshold(W, height) ==
    IF W.height <= MIN_VIEW_HEIGHT * (Len(W.panes) + 1)
    THEN [W EXCEPT !.warned = <<"Not enough room">>]
    ELSE Window_insert([W EXCEPT !.clones = Append(@, W.pane)],
                       Len(W.clones) + 1,
                       IF truthy(height) THEN Max(height, MIN_VIEW_HEIGHT)
                       ELSE height,
                       NullHeight)

\* hsplit(height): this.height() / (panes.length + 1) < MIN_VIEW_HEIGHT is a
\* comparison of a quotient with an integer, so the quotient may be floored.
Window_hsplit(W, height) ==
    IF W.height \div (Len(W.panes) + 1) < MIN_VIEW_HEIGHT
    THEN [W EXCEPT !.warned = <<"Not enough room">>]
    ELSE Window_insert([W EXCEPT !.clones = Append(@, W.pane)],
                       Len(W.clones) + 1,
                       IF truthy(height) THEN Max(height, MIN_VIEW_HEIGHT)
                       ELSE height,
                       NullHeight)

Window_vsplit(W, width) ==
    [W EXCEPT !.warned = <<"Vertical splits not yet supported">>]

\* hresize(offset), where rows is what p.pane.height() returns: the height
\* the layout gave the pane.
Window_hresize(W, offset, rows) ==
    LET p == W.panes[W.index + 1]
        size == IF truthy(p.height) THEN p.height ELSE rows
    IN Window_reflow(
           [W EXCEPT !.panes[W.index + 1].height =
                         Max(size + offset, MIN_VIEW_HEIGHT)])

Window_eresize(W) ==
    Window_reflow(
        [W EXCEPT !.panes = [i \in 1..Len(@) |->
                                 [@[i] EXCEPT !.height = NullHeight,
                                              !.width = NullHeight]]])

Window_rotate_indexStays(W, direction, count) ==
    LET length == Len(W.panes)
        k == count % length
    IN Window_reflow(
           [W EXCEPT !.panes = IF direction = "down"
                               THEN SubSeq(@, length - k + 1, length)
                                        \o SubSeq(@, 1, length - k)
                               ELSE SubSeq(@, k + 1, length)
                                        \o SubSeq(@, 1, k)])

\* rotate(direction, count): splice(-count, count) takes the last count
\* panes (none when count is 0), splice(0, count) the first count panes.
Window_rotate(W, direction, count) ==
    LET length == Len(W.panes)
        k == count % length
    IN CASE direction = "down" ->
                Window_reflow(
                    [W EXCEPT !.panes = SubSeq(@, length - k + 1, length)
                                            \o SubSeq(@, 1, length - k),
                              !.index = (length + W.index + k) % length])
         [] direction = "up" ->
                Window_reflow(
                    [W EXCEPT !.panes = SubSeq(@, k + 1, length)
                                            \o SubSeq(@, 1, k),
                              !.index = (length + W.index - k) % length])
         [] OTHER -> [W EXCEPT !.threw = TRUE]

\* quit(): program.quit() ends the process.
Window_quit(W) ==
    IF Len(W.panes) = 1 THEN [W EXCEPT !.exited = TRUE] ELSE Window_remove(W)

\* The ways the program calls a Window: focus(direction, count) from the
\* focus event, split(direction, size), resizePane(direction, size) and
\* rotate(direction, count) from the window event, hsplit() from the :split
\* command and quit() from the :quit command.
Window_call(W, op, direction, count, rows) ==
    CASE op = "focus" -> Window_focus(W, direction, count)
      [] op = "split" ->
             (CASE direction = "horizontal" -> Window_hsplit(W, count)
                [] direction = "vertical" -> Window_vsplit(W, count)
                [] OTHER -> [W EXCEPT !.threw = TRUE])
      [] op = "resize" ->
             (CASE direction = "horizontal" -> Window_hresize(W, count, rows)
                [] direction = "vertical" ->
                       [W EXCEPT !.warned =
                            <<"Vertical splits not yet supported">>]
                [] direction = "equal" -> Window_eresize(W)
                [] OTHER -> [W EXCEPT !.threw = TRUE])
      [] op = "rotate" -> Window_rotate(W, direction, count)
      [] op = "hsplit" -> Window_hsplit(W, UndefinedHeight)
      [] op = "quit" -> Window_quit(W)

MaxWindowOps == 3

\* The calls of a script, oldest first.
RECURSIVE Window_run(_, _)
Window_run(W, calls) ==
    IF calls = <<>> THEN W
    ELSE Window_run(Window_call([W EXCEPT !.warned = <<>>], Head(calls).op,
                                Head(calls).direction, Head(calls).count, 0),
                    Tail(calls))

\* A new Window in a region of 7 or 12 rows, as it is or after :split, or
\* after :split and ^W 5 s.
InitWindow ==
    /\ fsm = Construct(TRUE).fsm
    /\ box = Construct(TRUE).box
    /\ regs = RegisterManager
    /\ crashed = FALSE
    /\ ndebug = TRUE
    /\ emitted = <<>>
    /\ trail = <<>>
    /\ budget = MaxWindowOps
    /\ probe = null
    /\ pane = null
    /\ hist = null
    /\ simple = null
    /\ screen = null
    /\ \E h \in {7, 12}, splits \in 0..2 :
           win = Window_run(NewWindow(h),
                            SubSeq(<<[op |-> "hsplit", direction |-> "",
                                      count |-> 0],
                                     [op |-> "split",
                                      direction |-> "horizontal",
                                      count |-> 5]>>, 1, splits))

\* One call on the Window, while the process runs.  trail keeps the last
\* calls, each with the Window it found.
Windowed(op, direction, count, rows) ==
    /\ budget > 0
    /\ ~win.exited
    /\ win' = Window_call([win EXCEPT !.warned = <<>>], op, direction, count,
                          rows)
    /\ trail' = LET t == Append(trail, [op |-> op, direction |-> direction,
                                        count |-> count, rows |-> rows,
                                        pre |-> win])
                IN IF Len(t) > TrailLen THEN Tail(t) ELSE t
    /\ budget' = budget - 1
    /\ UNCHANGED <<fsm, box, regs, crashed, ndebug, emitted, probe, pane, hist,
                   simple, screen>>

SpecWindow ==
    InitWindow
        /\ [][\/ \E direction \in {"next", "previous"}, count \in {0, 2} :
                     Windowed("focus", direction, count, 0)
              \/ \E direction \in {"down", "up"} :
                     Windowed("focus", direction, 2, 0)
              \/ \E direction \in {"top", "bottom", "left", "zoom"} :
                     Windowed("focus", direction, 0, 0)
              \/ \E count \in {0, 2} :
                     Windowed("split", "horizontal", count, 0)
              \/ Windowed("split", "vertical", 0, 0)
              \/ Windowed("hsplit", "", 0, 0)
              \/ \E offset \in {0 - 2, 1} :
                     Windowed("resize", "horizontal", offset, 5)
              \/ Windowed("resize", "equal", 0, 0)
              \/ \E direction \in {"up", "down"}, count \in 0..2 :
                     Windowed("rotate", direction, count, 0)
              \/ Windowed("quit", "", 0, 0)]_vars

\* The last call on the Window and the one before it.
LastCall == trail[Len(trail)]
CallBefore == trail[Len(trail) - 1]

\* The pane entry the index of the Window W points at.
AtIndex(W) == W.panes[W.index + 1]

\* C27: rotate(up, k) followed by rotate(down, k) leaves the pane list in its
\* original order with index at the same pane; after any one rotate,
\* panes[index] is the pane object it was before.
C27_RotateUpThenDownRestores ==
    /\ Len(trail) >= 1 /\ LastCall.op = "rotate"
           => /\ ~win.threw
              /\ AtIndex(win) = AtIndex(LastCall.pre)
    /\ Len(trail) >= 2 /\ LastCall.op = "rotate" /\ CallBefore.op = "rotate"
          /\ CallBefore.direction = "up" /\ LastCall.direction = "down"
          /\ CallBefore.count = LastCall.count
           => /\ win.panes = CallBefore.pre.panes
              /\ win.index = CallBefore.pre.index

\* Three different panes with the focus on the middle one were rotated up by
\* one and down by one: the order changed in between and is restored.
C27_RotatedThereAndBack ==
    /\ Len(trail) >= 2
    /\ LastCall.op = "rotate" /\ LastCall.direction = "down"
    /\ CallBefore.op = "rotate" /\ CallBefore.direction = "up"
    /\ LastCall.count = 1 /\ CallBefore.count = 1
    /\ Len(win.panes) = 3
    /\ win.index = 1
    /\ LastCall.pre.panes # win.panes
    /\ LastCall.pre.index = 0
    /\ win.panes = CallBefore.pre.panes

\* The last call was a horizontal split: split('horizontal', size) or
\* hsplit().
LastCallSplit ==
    /\ trail # <<>>
    /\ \/ LastCall.op = "hsplit"
       \/ LastCall.op = "split" /\ LastCall.direction = "horizontal"

\* C28: a horizontal split of a window of height h with n panes warns "Not
\* enough room" and leaves the panes and the index alone exactly when
\* h < 4 * (n + 1); otherwise one new pane, a clone of the pane that has the
\* focus, is inserted at index and the others keep their order.
C28_SplitRefusedWithoutRoom ==
    LastCallSplit
        => LET was == LastCall.pre
               n == Len(was.panes)
           IN IF was.height < 4 * (n + 1)
              THEN /\ win.warned = <<"Not enough room">>
                   /\ win.panes = was.panes
                   /\ win.index = was.index
              ELSE /\ win.warned = <<>>
                   /\ Len(win.panes) = n + 1
                   /\ win.index = was.index
                   /\ AtIndex(win).pane \notin {was.panes[i].pane : i \in 1..n}
                   /\ win.clones[AtIndex(win).pane] = was.pane
                   /\ SubSeq(win.panes, 1, was.index)
                          = SubSeq(was.panes, 1, was.index)
                   /\ SubSeq(win.panes, was.index + 2, n + 1)
                          = SubSeq(was.panes, was.index + 1, n)

\* A window of 12 rows with two panes was split into three.
C28_SplitIntoThree ==
    /\ LastCallSplit
    /\ LastCall.pre.height = 12
    /\ Len(LastCall.pre.panes) = 2
    /\ Len(win.panes) = 3

\* A window of 12 rows with three panes refused a split.
C28_RefusedFourth ==
    /\ LastCallSplit
    /\ LastCall.pre.height = 12
    /\ Len(LastCall.pre.panes) = 3
    /\ win.warned = <<"Not enough room">>

\* C29: while the process runs, the Window has at least one pane and index
\* is the position of one of them, whatever was called; quit() on a single
\* pane ends the process, and quit() on more removes the pane at index and
\* no other.
C29_IndexStaysInRange ==
    /\ ~win.threw
    /\ Len(win.panes) >= 1
    /\ win.index \in 0..(Len(win.panes) - 1)
    /\ trail # <<>> /\ LastCall.op = "quit"
           => LET was == LastCall.pre
              IN IF Len(was.panes) = 1
                 THEN win.exited
                 ELSE /\ ~win.exited
                      /\ win.panes = SubSeq(was.panes, 1, was.index)
                                         \o SubSeq(was.panes, was.index + 2,
                                                   Len(was.panes))
    /\ trail # <<>> /\ LastCall.op # "quit" => ~win.exited

\* quit() removed the last of three panes, and index moved to the new last
\* one.
C29_QuitLastOfThree ==
    /\ trail # <<>>
    /\ LastCall.op = "quit"
    /\ Len(LastCall.pre.panes) = 3
    /\ LastCall.pre.index = 2
    /\ Len(win.panes) = 2
    /\ win.index = 1

\* A height that is not set: null, or the undefined that hsplit() stores.
Unset(height) == height \in {NullHeight, UndefinedHeight}

\* C30: every pane's fixed height is unset or at least 4, whatever splits
\* and resizes were made; hresize(d) sets the height of the pane at index to
\* max(current + d, 4), where current is its fixed height or, without one,
\* the height it has on screen; eresize() unsets every height.
C30_FixedHeightsAtLeastMinimum ==
    /\ \A i \in 1..Len(win.panes) :
           Unset(win.panes[i].height) \/ win.panes[i].height >= 4
    /\ trail # <<>> /\ LastCall.op = "resize"
          /\ LastCall.direction = "horizontal"
           => LET fixed == AtIndex(LastCall.pre).height
                  current == IF Unset(fixed) THEN LastCall.rows ELSE fixed
              IN AtIndex(win).height =
                     IF current + LastCall.count > 4
                     THEN current + LastCall.count ELSE 4
    /\ trail # <<>> /\ LastCall.op = "resize" /\ LastCall.direction = "equal"
           => \A i \in 1..Len(win.panes) : win.panes[i].height = NullHeight

\* C31: the Window starts in tile; focus('zoom') in tile enters zoom and in
\* zoom returns to tile; any other focus in zoom moves the index as it would
\* in tile and returns to tile; any other focus in tile stays in tile.
C31_ZoomToggles ==
    /\ trail = <<>> => win.state = "tile"
    /\ trail # <<>> /\ LastCall.op = "focus"
           => LET was == LastCall.pre
                  moved == Window_updateFocus([was EXCEPT !.state = "tile"],
                                              LastCall.direction,
                                              LastCall.count)
              IN /\ ~win.threw
                 /\ win.state =
                        IF was.state = "tile" /\ LastCall.direction = "zoom"
                        THEN "zoom" ELSE "tile"
                 /\ win.panes = was.panes
                 /\ win.index = IF LastCall.direction = "zoom" THEN was.index
                                ELSE moved.index

\* focus('bottom') arrived in zoom with the index on the first of three
\* panes: the index is on the last one and the Window tiles again.
C31_FocusBottomLeftZoom ==
    /\ trail # <<>>
    /\ LastCall.op = "focus"
    /\ LastCall.direction = "bottom"
    /\ LastCall.pre.state = "zoom"
    /\ LastCall.pre.index = 0
    /\ Len(win.panes) = 3
    /\ win.index = 2
    /\ win.state = "tile"

\* C38: in every state of the Window, tiled or zoomed, this.pane (the pane
\* that receives the keys and is shown when zoomed) is the pane stored at
\* panes[index].
C38_FocusedPaneIsAtIndex == win.pane = AtIndex(win).pane

\* C39: the key that follows ^R returns the FSM to the mode in which ^R was
\* pressed: insert from INSERT, replace from REPLACE.
C39_PasteReturnsToItsMode ==
    Len(trail) >= 2 /\ trail[Len(trail)].pre.fsm.state = "paste"
        /\ trail[Len(trail) - 1].key = Controlled("^R")
        => /\ ~crashed
           /\ fsm.state = trail[Len(trail) - 1].pre.fsm.state

\* ------------------------------------------------------------------------
\* REPLACE mode: typing over the line and backspacing.

\* The buffers "", ab (cursor on b, or on a after 0) brought to REPLACE with
\* R, with nothing, x or xy typed over them.
InitReplace ==
    Booted({base \o Keys(<<"R">>) \o Keys(typed) :
                base \in {Typed(<<>>), Typed(<<"a", "b">>),
                          Typed(<<"a", "b">>) \o Keys(<<"0">>)},
                typed \in {<<>>, <<"x">>, <<"x", "y">>}})

SpecReplace ==
    InitReplace
        /\ [][\/ \E ch \in {"x", "y"} : Press(ch)
              \/ \E k \in {"^H", "^?", "^["} : Control(k)
              \/ \E name \in {"delete", "left"} : Special(name, FALSE)]_vars

\* The keys delivered since R: those of the script and those of the run.
SinceR ==
    LET at == CHOOSE i \in 1..Len(probe) : probe[i] = Pressed("R")
    IN SubSeq(probe, at + 1, Len(probe))
           \o [i \in 1..Len(trail) |-> trail[i].key]

\* The TextBox as R left it.
AtR ==
    LET at == CHOOSE i \in 1..Len(probe) : probe[i] = Pressed("R")
    IN run(Construct(TRUE), SubSeq(probe, 1, at)).box

Backspaces ==
    {Controlled("^H"), Controlled("^?"), Specialed("delete", FALSE)}

\* Since R, k >= 1 characters were typed and then backspace was pressed k
\* times, and nothing else.
TypedThenErased ==
    /\ Len(trail) = MaxKeys - budget
    /\ Len(SinceR) >= 2
    /\ Len(SinceR) % 2 = 0
    /\ \A i \in 1..Len(SinceR) :
           IF 2 * i <= Len(SinceR) THEN SinceR[i].kind = "press"
           ELSE SinceR[i] \in Backspaces

InitGroup ==
    Booted({base \o Keys(opener) \o mid :
                base \in {Typed(<<"a", "b">>) \o Keys(<<"0">>),
                          Typed(<<"a", "b">>) \o Keys(<<"0">>)
                              \o <<Specialed("delete", FALSE)>>,
                          Typed(<<"a", " ", "b", "a">>) \o Keys(<<"0">>)},
                opener \in {<<"i">>, <<"a">>, <<"c", "l">>, <<"c", "w">>,
                            <<"C">>},
                mid \in {<<>>, <<Pressed("x")>>,
                         <<Pressed("x"), Controlled("^H")>>,
                         <<Pressed("x"), Specialed("left", FALSE)>>,
                         <<Controlled("^R"), Pressed("\"")>>}})

SpecGroup ==
    InitGroup
        /\ [][\/ \E ch \in {"x", "u"} : Press(ch)
              \/ \E k \in {"^H", "^R", "^["} : Control(k)
              \/ \E name \in {"delete", "left"} : Special(name, FALSE)]_vars

\* Every key delivered so far: those of the script, then those of the run.
GroupKeys == probe \o [i \in 1..Len(trail) |-> trail[i].key]

\* The program before the first key and after each key: entry n + 1 is the
\* program after n keys.
RECURSIVE Worlds(_, _)
Worlds(w, ks) ==
    IF ks = <<>> THEN <<w>>
    ELSE <<w>> \o Worlds(deliver(w, Head(ks)), Tail(ks))

\* Key n0 + 1 left normal, and key n1 was the first to return to it.
Grouped(ws, n0, n1) ==
    /\ n0 + 1 < n1
    /\ ws[n0 + 1].fsm.state = "normal"
    /\ \A n \in (n0 + 1)..(n1 - 1) : ws[n + 1].fsm.state # "normal"
    /\ ws[n1 + 1].fsm.state = "normal"

\* C36: the changes made between leaving normal and the next return to
\* normal add at most one snapshot to the history, and when they changed the
\* value, u pressed right after the return brings back the value that was
\* current when normal was left.
C36_GroupedChangeIsOneSnapshot ==
    ndebug /\ ~crashed /\ fsm.state = "normal" /\ budget < MaxKeys
        => LET holds(ws) ==
                   \A n0 \in 0..Len(GroupKeys), n1 \in 0..Len(GroupKeys) :
                       Grouped(ws, n0, n1)
                           => LET before == ws[n0 + 1].box
                                  after == ws[n1 + 1].box
                              IN /\ n1 = Len(GroupKeys)
                                    => after.history \in
                                           {before.history,
                                            HistList_append(before.history,
                                                            after.value)}
                                 /\ /\ n1 + 1 = Len(GroupKeys)
                                    /\ GroupKeys[n1 + 1] = Pressed("u")
                                    /\ ws[n1 + 1].fsm.count = 0
                                    /\ after.value # before.value
                                    => box.value = before.value
           IN holds(Worlds(Construct(TRUE), GroupKeys))

\* ------------------------------------------------------------------------
\* Screen: the keys of the terminal go to the focused Pane's input FSM or to
\* the command bar's.  A Screen is a record [state, cmd_in, cmdbar]; the
\* focused pane's View is the FSM and TextBox of the world record.

\* The Screen as its constructor leaves it: cmd_in and the command bar's
\* TextBox are new, the initial state is focusPane.
NewScreen ==
    [state |-> "focusPane", cmd_in |-> SimpleChatFSM,
     cmdbar |-> Construct(TRUE).box]

\* mod_commands.run for a text that names no command (the only texts typed
\* here: those over ':', a and x): the warning is scheduled for a later
\* tick, nothing changes now.
runCommand(S, text) == S

state_focusPane(S) == [S EXCEPT !.scr.state = "focusPane"]

\* The command bar that entered focusCommand without being reset.
state_focusCommand_keepsText(S) == [S EXCEPT !.scr.state = "focusCommand"]

\* Entry to focusCommand resets the command bar's TextBox.
state_focusCommand(S) ==
    LET r == reset([S.w EXCEPT !.box = S.scr.cmdbar])
    IN [w |-> [S.w EXCEPT !.crashed = r.crashed],
        scr |-> [S.scr EXCEPT !.state = "focusCommand", !.cmdbar = r.box]]

\* The Screen after the input of the focused pane's View handled a key and
\* left the world w1: a 'focus' event with type 'command' made the Screen
\* emit focus-command.
Screen_paneHeard(S, w1) ==
    IF ~w1.crashed
           /\ \E i \in 1..Len(w1.emitted) :
                  w1.emitted[i].ev = "focus" /\ w1.emitted[i].a = "command"
    THEN state_focusCommand([w |-> w1, scr |-> S.scr])
    ELSE [w |-> w1, scr |-> S.scr]

\* The Screen after cmd_in handled a key with result r: its 'switch' and the
\* command bar's 'submit' (emitted for a text that is not empty) lead back
\* to focusPane, the submitted text is run as a command first.
Screen_commandHeard(S, r) ==
    LET submits == {i \in 1..Len(r.w.emitted) :
                        /\ r.w.emitted[i].ev = "submit"
                        /\ r.w.emitted[i].pre.box.value # <<>>
                        /\ ~r.w.emitted[i].threw}
        switched == \E i \in 1..Len(r.w.emitted) :
                        r.w.emitted[i].ev = "switch"
        S1 == [w |-> [S.w EXCEPT !.regs = r.w.regs,
                                 !.crashed = r.w.crashed,
                                 !.emitted = r.w.emitted],
               scr |-> [S.scr EXCEPT !.cmd_in = r.s, !.cmdbar = r.w.box]]
    IN IF r.w.crashed THEN S1
       ELSE IF submits # {}
       THEN state_focusPane(
                runCommand(S1, r.w.emitted[CHOOSE i \in submits : TRUE]
                                   .pre.box.value))
       ELSE IF switched THEN state_focusPane(S1)
       ELSE S1

\* A 'control', 'keypress' or 'special' event of the terminal arrives at the
\* Screen S = [w, scr].  In focusPane the key goes to the input of the
\* focused pane's View, in focusCommand to cmd_in.
Screen_deliver(S, k) ==
    IF S.w.crashed THEN S
    ELSE IF S.scr.state = "focusPane"
    THEN CHOOSE R \in {Screen_paneHeard(S, w1) :
                           w1 \in {deliver([S.w EXCEPT !.emitted = <<>>],
                                           k)}} : TRUE
    ELSE CHOOSE R \in {Screen_commandHeard(S, r) :
                           r \in {simple_deliver(
                                      [S.w EXCEPT !.box = S.scr.cmdbar],
                                      S.scr.cmd_in, k)}} : TRUE

RECURSIVE Screen_run(_, _)
Screen_run(S, ks) ==
    IF ks = <<>> THEN S
    ELSE CHOOSE R \in {Screen_run(S1, Tail(ks)) :
                           S1 \in {Screen_deliver(S, Head(ks))}} : TRUE

\* A new Screen, or one that already saw keys: ab typed in the pane (still in
\* INSERT, or back in NORMAL), then perhaps : and a in the command bar,
\* and <Esc> to leave it with its text.
InitScreen ==
    \E inpane \in {<<>>, Keys(<<"i", "a", "b">>), Typed(<<"a", "b">>)},
       incmd \in {<<>>, Keys(<<":">>), Keys(<<":", "a">>),
                  Keys(<<":", "a">>) \o <<Controlled("^[")>>} :
        /\ incmd = <<>> \/ inpane \notin {Keys(<<"i", "a", "b">>)}
        /\ \E S \in {Screen_run([w |-> Construct(TRUE), scr |-> NewScreen],
                                 inpane \o incmd)} :
               /\ fsm = S.w.fsm
               /\ box = S.w.box
               /\ regs = S.w.regs
               /\ crashed = S.w.crashed
               /\ screen = S.scr
        /\ ndebug = TRUE
        /\ emitted = <<>>
        /\ trail = <<>>
        /\ budget = MaxKeys
        /\ probe = inpane \o incmd
        /\ pane = null
        /\ hist = null
        /\ simple = null
        /\ win = null

\* The terminal delivers one key to the Screen.
ScreenKey(k) ==
    /\ budget > 0
    /\ ~crashed
    /\ \E S \in {Screen_deliver(
                      [w |-> [fsm |-> fsm, box |-> box, regs |-> regs,
                              crashed |-> crashed, ndebug |-> ndebug,
                              emitted |-> <<>>],
                       scr |-> screen], k)} :
           /\ fsm' = S.w.fsm
           /\ box' = S.w.box
           /\ regs' = S.w.regs
           /\ crashed' = S.w.crashed
           /\ emitted' = S.w.emitted
           /\ screen' = S.scr
    /\ trail' = LET t == Append(trail, [key |-> k,
                                        pre |-> [fsm |-> fsm, box |-> box,
                                                 regs |-> regs,
                                                 screen |-> screen]])
                IN IF Len(t) > TrailLen THEN Tail(t) ELSE t
    /\ budget' = budget - 1
    /\ UNCHANGED <<ndebug, probe, pane, hist, simple, win>>

SpecScreen ==
    InitScreen
        /\ [][\/ \E ch \in {":", "a", "x"} : ScreenKey(Pressed(ch))
              \/ \E k \in {"^[", "^M", "^H", "^?", "^U"} :
                     ScreenKey(Controlled(k))
              \/ \E name \in {"delete", "left"} :
                     ScreenKey(Specialed(name, FALSE))]_vars

\* The last key, the Screen and the world it found.
LastKey == trail[Len(trail)]

WorldBefore ==
    [fsm |-> LastKey.pre.fsm, box |-> LastKey.pre.box,
     regs |-> LastKey.pre.regs, crashed |-> FALSE, ndebug |-> ndebug,
     emitted |-> <<>>]

\* The last key made the pane's input emit 'focus' with type 'command'.
AskedForCommand ==
    \E i \in 1..Len(emitted) :
        emitted[i].ev = "focus" /\ emitted[i].a = "command"

\* The last key was handled by the input FSM of the focused pane and by
\* nothing else: FSM and TextBox are what its handler leaves.
PaneGotKey ==
    /\ fsm = deliver(WorldBefore, LastKey.key).fsm
    /\ box = deliver(WorldBefore, LastKey.key).box
    /\ screen.cmd_in = LastKey.pre.screen.cmd_in

\* The last key was handled by cmd_in and by nothing else.
CommandGotKey ==
    LET r == simple_deliver([WorldBefore EXCEPT
                                 !.box = LastKey.pre.screen.cmdbar],
                            LastKey.pre.screen.cmd_in, LastKey.key)
    IN /\ screen.cmd_in = r.s
       /\ screen.cmdbar = r.w.box
       /\ fsm = LastKey.pre.fsm
       /\ box = LastKey.pre.box

\* The intents of the last key were handled before the key returned: a
\* checkpoint left prev and the current snapshot equal to the value, a clamp
\* left the cursor on a character of the line (or at 0).
IntentsHandled ==
    /\ (\E i \in 1..Len(emitted) : emitted[i].ev = "checkpoint")
           => /\ box.prev = box.value
              /\ HistList_item(box.history) = box.value
    /\ (\E i \in 1..Len(emitted) : emitted[i].ev = "clamp")
           => box.cursor <= Max(Len(box.value) - 1, 0)

\* C32 as stated: a key in focusPane is handled by the pane's FSM and leaves
\* cmd_in and the command bar's buffer as they were, a key in focusCommand is
\* handled by cmd_in and leaves the pane's FSM and buffer as they were, and
\* the intents of the key are handled when the key returns.
C32_KeyReachesOneFsm ==
    trail # <<>> /\ ~crashed
        => /\ LastKey.pre.screen.state = "focusPane"
                  => /\ PaneGotKey
                     /\ screen.cmdbar = LastKey.pre.screen.cmdbar
                     /\ IntentsHandled
           /\ LastKey.pre.screen.state = "focusCommand" => CommandGotKey

\* C32, amended: as above, except that the key of focusPane that moves the
\* focus to the command bar empties the command bar's buffer.
C32_KeyReachesOneFsmOrResetsBar ==
    trail # <<>> /\ ~crashed
        => /\ LastKey.pre.screen.state = "focusPane"
                  => /\ PaneGotKey
                     /\ IF AskedForCommand
                        THEN /\ screen.state = "focusCommand"
                             /\ screen.cmdbar = NewScreen.cmdbar
                        ELSE /\ screen.state = "focusPane"
                             /\ screen.cmdbar = LastKey.pre.screen.cmdbar
                     /\ IntentsHandled
           /\ LastKey.pre.screen.state = "focusCommand" => CommandGotKey

\* : was pressed in the pane while the command bar still held the a of an
\* abandoned command: the bar is empty and has the focus.
C32_ColonEmptiedBar ==
    /\ trail # <<>>
    /\ LastKey.key = Pressed(":")
    /\ LastKey.pre.screen.state = "focusPane"
    /\ LastKey.pre.screen.cmdbar.value = <<"a">>
    /\ screen.state = "focusCommand"
    /\ screen.cmdbar.value = <<>>
    /\ box = LastKey.pre.box

\* The 'edit' events the last key emitted.
EditsEmitted ==
    {i \in 1..Len(emitted) : emitted[i].ev = "edit"}

\* The last key was a backspace or Delete that found the pane's FSM in insert
\* with the focus on the pane.
DeletedInInsert ==
    /\ LastKey.pre.screen.state = "focusPane"
    /\ LastKey.pre.fsm.state = "insert"
    /\ LastKey.key \in {Controlled("^H"), Controlled("^?"),
                        Specialed("delete", FALSE)}

MaxWordLen == 3

WordChars == {"a", " ", "."}

RECURSIVE WordTexts(_)
WordTexts(n) ==
    IF n = 0 THEN {<<>>}
    ELSE WordTexts(n - 1)
             \cup {Append(t, c) :
                       t \in {u \in WordTexts(n - 1) : Len(u) = n - 1},
                       c \in WordChars}

\* A TextBox holding any short text of letters, spaces and dots with the
\* cursor anywhere on it or just past its end (where INSERT mode and the
\* command bar leave it), and a word motion to resolve.
InitWord ==
    \E value \in WordTexts(MaxWordLen), count \in 1..MaxCount,
       mvmt \in {"word-begin", "word-end"}, direction \in {D_LEFT, D_RIGHT} :
        \E x \in 0..Len(value) :
            /\ fsm = Construct(TRUE).fsm
            /\ box = [Construct(TRUE).box EXCEPT !.value = value, !.cursor = x]
            /\ regs = RegisterManager
            /\ crashed = FALSE
            /\ ndebug = TRUE
            /\ emitted = <<>>
            /\ trail = <<>>
            /\ budget = 0
            /\ probe = [movement |-> mvmt, direction |-> direction,
                        count |-> count, resolved |-> FALSE, to |-> NoCursor]
            /\ pane = null
            /\ hist = null
            /\ simple = null
            /\ screen = null
            /\ win = null

\* this._movement({ movement: 'word-begin' | 'word-end', ... })
ToWord ==
    /\ ~probe.resolved
    /\ probe' = [probe EXCEPT
                    !.resolved = TRUE,
                    !.to = movement(box, [NoMotion EXCEPT
                                             !.movement = probe.movement,
                                             !.direction = probe.direction,
                                             !.count = probe.count]).nc]
    /\ UNCHANGED <<fsm, box, regs, crashed, ndebug, emitted, trail, budget,
                   pane, hist, simple, win, screen>>

SpecWord == InitWord /\ [][ToWord]_vars

\* The characters of the line that are a boundary of the probed kind and lie
\* on the probed side of the cursor.
BoundariesAhead ==
    {i \in 0..(Len(box.value) - 1) :
         /\ IF probe.direction = D_LEFT THEN i < box.cursor ELSE i > box.cursor
         /\ IF probe.movement = "word-begin" THEN isWordBegin(box.value, i)
            ELSE isWordEnd(box.value, i)}

\* The count-th boundary ahead, or the line boundary when there are fewer.
WordTarget ==
    IF Cardinality(BoundariesAhead) < probe.count
    THEN IF probe.direction = D_LEFT THEN 0 ELSE Len(box.value)
    ELSE CHOOSE i \in BoundariesAhead :
             Cardinality({j \in BoundariesAhead :
                              IF probe.direction = D_LEFT THEN j >= i
                              ELSE j <= i}) = probe.count

\* C33: a word-begin or word-end motion to the left or right with count >= 1
\* never fails and stops on the count-th boundary in its direction, or on the
\* line boundary when there are fewer; word-begin to the left moves a cursor
\* that is not at 0 strictly left.
C33_WordMotionResolves ==
    probe.resolved
        => /\ probe.to # NoCursor
           /\ probe.to = WordTarget
           /\ /\ probe.movement = "word-begin"
              /\ probe.direction = D_LEFT
              /\ box.cursor > 0
              => probe.to < box.cursor

\* ------------------------------------------------------------------------
\* Completion.  The TextBox of this section carries the completion fields:
\* completion_func (here the names the completer knows, in the order it
\* lists them), completion_options, completion_index, completion_original
\* and completion_cursor.

MaxCompletes == 4

\* Room.complete: the rest of every known name that starts with prefix.
RECURSIVE completion_func(_, _)
completion_func(names, prefix) ==
    IF names = <<>> THEN <<>>
    ELSE LET curr == Head(names)
             rest == completion_func(Tail(names), prefix)
         IN IF Slice(curr, 0, Len(prefix)) = prefix
            THEN <<SliceFrom(curr, Len(prefix))>> \o rest
            ELSE rest

\* while (isWordChar(this.value[x - 1])) x -= 1
RECURSIVE completionStart(_, _)
completionStart(value, x) ==
    IF isWordChar(CharAt(value, x - 1)) THEN completionStart(value, x - 1)
    ELSE x

\* A TextBox that asks its completer again on every call.
needsOptions_always(b) == TRUE

\* this.completion_options.length === 0
needsOptions(b) == b.completion_options = <<>>

\* TextBox.complete(direction)
complete(w, direction) ==
    LET b == w.box
        x == completionStart(b.value, b.cursor - 1)
        found == completion_func(b.completion_func,
                                 Slice(b.value, x, b.cursor))
        b1 == IF needsOptions(b)
              THEN [b EXCEPT !.completion_options = found,
                             !.completion_index = Len(found),
                             !.completion_original = b.value,
                             !.completion_cursor = b.cursor]
              ELSE b
        n == Len(b1.completion_options)
        index == IF direction = "next"
                 THEN IF b1.completion_index = n THEN 0
                      ELSE b1.completion_index + 1
                 ELSE IF b1.completion_index = 0 THEN n
                      ELSE b1.completion_index - 1
        b2 == [b1 EXCEPT !.completion_index = index,
                         !.value = b1.completion_original,
                         !.cursor = b1.completion_cursor]
    IN IF w.crashed THEN w
       ELSE IF needsOptions(b) /\ found = <<>>
       THEN [w EXCEPT !.box.completion_options = found]
       ELSE IF direction \notin {"next", "previous"}
       THEN throw([w EXCEPT !.box = b1])
       ELSE refreshTextBox(
                IF index # n
                THEN insert([w EXCEPT !.box = b2], b2.cursor, 0,
                            b2.completion_options[index + 1])
                ELSE [w EXCEPT !.box = b2])

\* A TextBox holding "", a, "b a" or ab with the cursor anywhere, whose
\* completer knows some of the names ab, abc and b: between no and three
\* options.  probe counts the calls of the completer and keeps the
\* directions asked for and the TextBox before the first call.
InitComplete ==
    \E value \in {<<>>, <<"a">>, <<"b", " ", "a">>, <<"a", "b">>},
       names \in {<<<<"a", "b">>>>, <<<<"a", "b">>, <<"a", "b", "c">>>>,
                  <<<<"b">>, <<"a", "b", "c">>, <<"a", "b">>>>} :
        \E x \in 0..Len(value) :
            /\ fsm = Construct(TRUE).fsm
            /\ box = [value |-> value, cursor |-> x, hlbegin |-> NoCursor,
                      history |-> Construct(TRUE).box.history,
                      prev |-> <<>>,
                      completion_func |-> names,
                      completion_options |-> <<>>,
                      completion_index |-> null,
                      completion_original |-> null,
                      completion_cursor |-> null]
            /\ regs = RegisterManager
            /\ crashed = FALSE
            /\ ndebug = TRUE
            /\ emitted = <<>>
            /\ trail = <<>>
            /\ budget = MaxCompletes
            /\ probe = [calls |-> 0, asked |-> <<>>,
                        first |-> [value |-> value, cursor |-> x]]
            /\ pane = null
            /\ hist = null
            /\ simple = null
            /\ screen = null
            /\ win = null

\* The input FSM emits 'complete' with a direction.
Complete(direction) ==
    /\ budget > 0
    /\ ~crashed
    /\ LET handled(w) ==
               /\ box' = w.box
               /\ crashed' = w.crashed
       IN handled(complete([fsm |-> fsm, box |-> box, regs |-> regs,
                            crashed |-> crashed, ndebug |-> ndebug,
                            emitted |-> <<>>], direction))
    /\ probe' = [probe EXCEPT
                    !.calls = IF needsOptions(box) THEN @ + 1 ELSE @,
                    !.asked = Append(@, direction)]
    /\ trail' = LET t == Append(trail, [direction |-> direction,
                                        pre |-> box])
                IN IF Len(t) > TrailLen THEN Tail(t) ELSE t
    /\ budget' = budget - 1
    /\ UNCHANGED <<fsm, regs, ndebug, emitted, pane, hist, simple, win,
                   screen>>

SpecComplete ==
    InitComplete /\ [][\E direction \in {"next", "previous"} :
                           Complete(direction)]_vars

\* How often direction was asked for so far.
Asked(direction) ==
    Cardinality({i \in 1..Len(probe.asked) : probe.asked[i] = direction})

\* C34: with n >= 1 options and nothing but complete() calls, the completer
\* ran once; the index is on a ring of n + 1 positions, n steps forward and
\* backward from position n, where the text is the original one; n + 1 calls
\* in one direction bring back the value and cursor of before the first call,
\* and next followed by previous brings back those of before the two calls.
C34_CompletionRing ==
    LET n == Len(box.completion_options)
    IN probe.asked # <<>> /\ n >= 1
           => /\ ~crashed
              /\ probe.calls = 1
              /\ box.completion_index =
                     (n + Asked("next") + (n + 1) * Asked("previous")
                          - Asked("previous")) % (n + 1)
              /\ box.completion_index = n
                     => /\ box.value = probe.first.value
                        /\ box.cursor = probe.first.cursor
              /\ Len(probe.asked) = n + 1 /\ Asked("next") \in {0, n + 1}
                     => /\ box.value = probe.first.value
                        /\ box.cursor = probe.first.cursor
              /\ /\ Len(trail) >= 2
                 /\ trail[Len(trail) - 1].direction = "next"
                 /\ trail[Len(trail)].direction = "previous"
                 => /\ box.value = trail[Len(trail) - 1].pre.value
                    /\ box.cursor = trail[Len(trail) - 1].pre.cursor

\* Three complete(next) calls on "b a" with the options b and bc: the third
\* took the completion away again and the cursor is back behind the a.
C34_ThirdNextRestored ==
    /\ probe.asked = <<"next", "next", "next">>
    /\ Len(box.completion_options) = 2
    /\ probe.first = [value |-> <<"b", " ", "a">>, cursor |-> 3]
    /\ trail[Len(trail)].pre.value = <<"b", " ", "a", "b", "c">>
    /\ box.value = <<"b", " ", "a">>
    /\ box.cursor = 3

\* ------------------------------------------------------------------------
\* Splitting: the Panes of a Window and their jump lists.  The HistList
\* objects live in hist, a Pane names its jump list by its place there, and
\* pane maps the pane numbers of the Window to the Pane objects.

MaxSplitOps == 4

\* HistList.prototype.clone: a new list with the same items and pointer.
HistList_clone(h) ==
    [hl_list |-> h.hl_list, hl_ptr |-> h.hl_ptr, hl_maxSize |-> h.hl_maxSize]

\* A clone that keeps using the jump list of the Pane it was made from.
Pane_clone_sharesJumplist(heap, p) ==
    [heap |-> heap,
     pane |-> [jumplist |-> p.jumplist,
               wrapped |-> HistList_current(heap[p.jumplist])]]

\* Pane.prototype.clone: a new Pane on a clone of the jump list, showing the
\* view that is current in it.
Pane_clone(heap, p) ==
    LET jumplist == HistList_clone(heap[p.jumplist])
    IN [heap |-> Append(heap, jumplist),
        pane |-> [jumplist |-> Len(heap) + 1,
                  wrapped |-> HistList_current(jumplist)]]

\* A Window of height 12 with one Pane, whose jump list holds the lobby and
\* perhaps a room visited after it.
InitSplit ==
    /\ fsm = Construct(TRUE).fsm
    /\ box = Construct(TRUE).box
    /\ crashed = FALSE
    /\ ndebug = TRUE
    /\ emitted = <<>>
    /\ trail = <<>>
    /\ budget = MaxSplitOps
    /\ probe = null
    /\ simple = null
    /\ screen = null
    /\ win = NewWindow(12)
    /\ \E visited \in {<<>>, <<<<"a">>>>} :
           LET views == <<<<"Lobby">>>> \o visited
               jumplist ==
                   [hl_list |-> views, hl_ptr |-> Len(views) - 1,
                    hl_maxSize |-> HL_DEF_MAX_SIZE]
           IN /\ hist = <<jumplist>>
              /\ pane = <<[jumplist |-> 1,
                            wrapped |-> HistList_item(jumplist)]>>
              /\ regs = IF visited = <<>>
                        THEN updateCurrentBufferName(RegisterManager,
                                                     <<"Lobby">>)
                        ELSE updateCurrentBufferName(
                                 updateCurrentBufferName(RegisterManager,
                                                         <<"Lobby">>),
                                 <<"a">>)

\* window.hsplit(): unless there is no room, the focused Pane is cloned (the
\* Pane constructor passes the name of its view to the registers) and the
\* clone is inserted at the index, where it takes the focus.
Split ==
    /\ budget > 0
    /\ LET W == Window_hsplit([win EXCEPT !.warned = <<>>], UndefinedHeight)
           made(r) ==
               /\ hist' = r.heap
               /\ pane' = Append(pane, r.pane)
               /\ regs' = updateCurrentBufferName(regs, r.pane.wrapped)
       IN /\ win' = W
          /\ IF W.warned # <<>>
             THEN UNCHANGED <<hist, pane, regs>>
             ELSE made(Pane_clone(hist, pane[win.pane]))
    /\ trail' = LET t == Append(trail, [op |-> "hsplit", id |-> win.pane,
                                        pre |-> [pane |-> pane,
                                                 hist |-> hist]])
                IN IF Len(t) > TrailLen THEN Tail(t) ELSE t
    /\ budget' = budget - 1
    /\ UNCHANGED <<fsm, box, crashed, ndebug, emitted, probe, simple, screen>>

\* focusView(view) or focusHistory(direction, count) on the Pane numbered id.
FocusedOn(id, op, view, direction, count) ==
    /\ budget > 0
    /\ id \in 1..Len(pane)
    /\ LET at == pane[id].jumplist
           setView(jumplist) ==
               /\ hist' = [hist EXCEPT ![at] = jumplist]
               /\ pane' = [pane EXCEPT ![id].wrapped = HistList_item(jumplist)]
               /\ regs' = updateCurrentBufferName(regs,
                                                  HistList_item(jumplist))
       IN CASE op = "focusView" -> setView(HistList_append(hist[at], view))
            [] op = "focusHistory" /\ direction = "previous" ->
                   setView(HistList_prev(hist[at], count))
            [] op = "focusHistory" /\ direction = "next" ->
                   setView(HistList_next(hist[at], count))
    /\ trail' = LET t == Append(trail, [op |-> op, id |-> id,
                                        pre |-> [pane |-> pane,
                                                 hist |-> hist]])
                IN IF Len(t) > TrailLen THEN Tail(t) ELSE t
    /\ budget' = budget - 1
    /\ UNCHANGED <<fsm, box, crashed, ndebug, emitted, probe, simple, screen,
                   win>>

SpecSplit ==
    InitSplit
        /\ [][\/ Split
              \/ \E id \in 1..2, view \in {<<"a">>, <<"b">>} :
                     FocusedOn(id, "focusView", view, "", 0)
              \/ \E id \in 1..2, direction \in {"previous", "next"} :
                     FocusedOn(id, "focusHistory", null, direction, 1)]_vars

\* What a Pane shows and remembers: the items and the pointer of its jump
\* list, and its current view.
PaneSeen(panes, heap, id) ==
    [items |-> heap[panes[id].jumplist].hl_list,
     cursor |-> heap[panes[id].jumplist].hl_ptr,
     view |-> panes[id].wrapped]

LastOp == trail[Len(trail)]

\* C37: the Pane made by hsplit starts with the items, the pointer and the
\* view of the Pane it was made from, and focusView or focusHistory on one
\* Pane leaves the items, the pointer and the view of every other Pane as
\* they were.
C37_ClonedJumpListsIndependent ==
    trail # <<>>
        => /\ LastOp.op = "hsplit" /\ Len(pane) > Len(LastOp.pre.pane)
                  => /\ PaneSeen(pane, hist, Len(pane))
                            = PaneSeen(pane, hist, LastOp.id)
                     /\ PaneSeen(pane, hist, LastOp.id)
                            = PaneSeen(LastOp.pre.pane, LastOp.pre.hist,
                                       LastOp.id)
           /\ LastOp.op \in {"focusView", "focusHistory"}
                  => \A other \in 1..Len(pane) :
                         other # LastOp.id
                             => PaneSeen(pane, hist, other)
                                    = PaneSeen(LastOp.pre.pane,
                                               LastOp.pre.hist, other)

\* After a split the clone went to room b: its jump list grew, the one of the
\* Pane it was made from still ends with the lobby.
C37_CloneWentElsewhere ==
    /\ Len(trail) >= 2
    /\ trail[Len(trail) - 1].op = "hsplit"
    /\ LastOp.op = "focusView"
    /\ LastOp.id = 2
    /\ Len(pane) = 2
    /\ PaneSeen(pane, hist, 2).items = <<<<"Lobby">>, <<"b">>>>
    /\ PaneSeen(pane, hist, 1).items = <<<<"Lobby">>>>
    /\ PaneSeen(pane, hist, 1).view = <<"Lobby">>

============================================================================
